---- MODULE Spec2Model ----
(***************************************************************************)
(* Model of EnhancedAnalysisPipeline                                       *)
(* (src/services/enhanced_analysis_pipeline.py): the staged pipeline       *)
(* orchestrator, its per-stage validator, the recovery generator and the   *)
(* consolidation of the final analysis.                                    *)
(*                                                                         *)
(* Python values are modelled as records with a "kind" field:              *)
(*   "none"  None                                                          *)
(*   "dict"  a mapping; the keys the code reads are the record's fields    *)
(*   "list"  a sequence; n is its length                                   *)
(*   "bad"   a truthy value of a type the reading code cannot index        *)
(* A string is modelled by its length (and stripped length).               *)
(* The field "origin" of a value stands for its literal content (which     *)
(* generator wrote the texts); it is no key of the program's mapping, and  *)
(* the markers the program does write are recovery_mode and fallback_mode. *)
(***************************************************************************)
EXTENDS Integers, Sequences, FiniteSets, TLC

\* ------------------------------------------------------------------ bounds
MaxSegLen == 3
MaxFontes == 3
RawLen == 2         \* length of the raw texts collaborators attach
MaxHookFailures == 1  \* raising calls of salvar_etapa / salvar_erro in one run

\* --------------------------------------------------------------- constants
MinSegmentLen == 3
MinPesquisaFontes == 1
MinSources == 3
MinInsights == 15

\* ----------------------------------------------------------- declared stages
components ==
    << "projeto_dados",
       "pesquisa_web_massiva",
       "analise_ia_avancada",
       "avatar_ultra_detalhado",
       "posicionamento_estrategico",
       "drivers_mentais_customizados",
       "provas_visuais_instantaneas",
       "sistema_anti_objecao",
       "pre_pitch_invisivel",
       "predicoes_futuro_completas",
       "insights_exclusivos" >>

NumComponents == Len(components)

Range(s) == { s[k] : k \in 1..Len(s) }

StageNames == Range(components)

IndexOf(name) == CHOOSE k \in 1..NumComponents : components[k] = name

mandatory_components == { "projeto_dados", "pesquisa_web_massiva", "analise_ia_avancada" }

\* ------------------------------------------------------------ Python values
NoneV == [kind |-> "none"]
EmptyDict == [kind |-> "dict", empty |-> TRUE]
EmptyList == [kind |-> "list", n |-> 0]

\* bool(v)
Truthy(v) ==
    CASE v.kind = "none" -> FALSE
      [] v.kind = "dict" -> ~("empty" \in DOMAIN v /\ v.empty)
      [] v.kind = "list" -> v.n > 0
      [] v.kind = "str"  -> v.raw > 0
      [] OTHER -> TRUE

\* d.get(k, default) on a mapping modelled as a function
Get(d, k, default) == IF k \in DOMAIN d THEN d[k] ELSE default

\* {**a, **b}
Merge(a, b) ==
    [k \in (DOMAIN a) \cup (DOMAIN b) |-> IF k \in DOMAIN b THEN b[k] ELSE a[k]]

\* A string: raw is len(s), strip is len(s.strip()), sim tells whether its
\* lowercase form contains a phrase of simulation_indicators.
Str(raw, strip, sim) == [kind |-> "str", raw |-> raw, strip |-> strip, sim |-> sim]

\* str.strip()
Strip(s) == Str(s.strip, s.strip, s.sim)

\* the literal defaults of the code
NegociosUpper == Str(8, 8, FALSE)      \* 'Negócios'
NegociosLower == Str(8, 8, FALSE)      \* 'negócios'
ShortestIndicatorLen == 3              \* len('n/a')

\* ------------------------------------------------------------------- input
\* The caller's mapping: 'segmento' and 'preco' may be absent; the caller may
\* also pass a key that has the name of a stage.
SegmentoChoices ==
    { Str(r, s, m) : r \in 0..MaxSegLen, s \in 0..MaxSegLen, m \in BOOLEAN }

ValidSegmento(x) ==
    /\ x.strip <= x.raw
    /\ (x.sim => x.strip >= ShortestIndicatorLen)

\* A price on which float() raises (truthy, not numeric).  A numeric price
\* takes the same paths as an absent one and is not enumerated.
BadPreco == [kind |-> "bad"]

CallerAvatar ==
    [kind |-> "dict", perfil_demografico |-> 4,
     dores_viscerais |-> [n |-> 5, short |-> FALSE, sim |-> FALSE],
     desejos_secretos |-> 5, objecoes_reais |-> 3, metadata_avatar |-> FALSE,
     origin |-> "caller"]

InputKeySets == SUBSET { "segmento", "preco", "avatar_ultra_detalhado" }

Inputs ==
    { [k \in ks |->
         CASE k = "segmento" -> seg
           [] k = "preco" -> pr
           [] OTHER -> CallerAvatar] :
      ks \in InputKeySets,
      seg \in { x \in SegmentoChoices : ValidSegmento(x) },
      pr \in { BadPreco } }

\* ---------------------------------------------------------- stage outcomes
\* A stage function either raises (code is the failure code that prefixes its
\* message) or returns a value.
\* effects maps a stage name to the new content of the object stored under it,
\* when the stage function changed that object in place.
NoEffects == [k \in {} |-> NoneV]
Raise(code) == [raised |-> TRUE, value |-> NoneV, code |-> code, effects |-> NoEffects]
Return(v) == [raised |-> FALSE, value |-> v, code |-> "", effects |-> NoEffects]
ReturnWith(v, eff) == [raised |-> FALSE, value |-> v, code |-> "", effects |-> eff]

\* float(data.get('preco', 0)) if data.get('preco') else None, raising or not
FloatRaises(d) == "preco" \in DOMAIN d /\ d["preco"].kind = "bad"

prepare_project_data(d) ==
    IF ~("segmento" \in DOMAIN d /\ Truthy(d["segmento"]))
    THEN Raise("PROJETO_DADOS")
    ELSE IF FloatRaises(d)
    THEN Raise("PROJETO_DADOS")
    ELSE IF Strip(d["segmento"]).raw < MinSegmentLen
    THEN Raise("PROJETO_DADOS")
    ELSE Return([kind |-> "dict", segmento |-> Strip(d["segmento"]),
                 validado |-> TRUE])

\* ------------------------------------------------------- recovery generator
\* project_data.get('segmento', 'negócios')
SegmentoOf(project_data) ==
    IF project_data.kind = "dict" /\ "segmento" \in DOMAIN project_data
    THEN project_data.segmento ELSE NegociosLower

\* The first three default pain points are 47 characters or longer; the first
\* one embeds the segment, so it contains an indicator when the segment does.
\* variant: the first default pain points are short phrases
generate_default_dores_short(project_data) ==
    [n |-> 8, short |-> TRUE, sim |-> SegmentoOf(project_data).sim]

generate_default_dores(project_data) ==
    [n |-> 8, short |-> FALSE, sim |-> SegmentoOf(project_data).sim]

generate_default_desejos(project_data) == 8

generate_default_objecoes(project_data) == 8

generate_basic_avatar(segmento) ==
    [kind |-> "dict", perfil_demografico |-> 4,
     dores_viscerais |-> generate_default_dores([kind |-> "dict", segmento |-> segmento]),
     desejos_secretos |-> generate_default_desejos([kind |-> "dict", segmento |-> segmento]),
     objecoes_reais |-> generate_default_objecoes([kind |-> "dict", segmento |-> segmento]),
     metadata_avatar |-> FALSE, origin |-> "basic"]

generate_basic_positioning(project_data) ==
    [kind |-> "dict", complete |-> TRUE, origin |-> "basic"]

\* variant: only the first five literal insights are returned
generate_additional_insights_first_five(project_data, search_data) ==
    [kind |-> "list", n |-> 5, ai |-> 0, pass |-> 0, add |-> 5, origin |-> "additional"]

\* insights[:20] of the twenty literal insights
generate_additional_insights(project_data, search_data) ==
    [kind |-> "list", n |-> 20, ai |-> 0, pass |-> 0, add |-> 20, origin |-> "additional"]

generate_basic_project_data(d) ==
    [kind |-> "dict", segmento |-> Get(d, "segmento", NegociosUpper),
     recovery_mode |-> TRUE]

\* variant: recovery has no search data to offer
generate_basic_search_data_empty(d) == EmptyDict

\* variant: the recovered search data claim three sources
generate_basic_search_data_three_sources(d) ==
    [kind |-> "dict", total_fontes |-> 3, recovery_mode |-> TRUE]

generate_basic_search_data(d) ==
    [kind |-> "dict", total_fontes |-> 1, recovery_mode |-> TRUE]

generate_basic_ai_analysis(d) ==
    LET project_data == Get(d, "projeto_dados", EmptyDict)
        segmento == SegmentoOf(project_data)
    IN  [kind |-> "dict",
         avatar_ultra_detalhado |-> generate_basic_avatar(segmento),
         posicionamento_estrategico |-> generate_basic_positioning(project_data),
         insights_exclusivos |-> generate_additional_insights(project_data, EmptyDict),
         recovery_mode |-> TRUE]

\* variant: the generator's exception is not caught and leaves the function
attempt_component_recovery_uncaught(component_name, d) ==
    CASE component_name = "projeto_dados" ->
            IF FloatRaises(d) THEN [kind |-> "raise"] ELSE generate_basic_project_data(d)
      [] component_name = "pesquisa_web_massiva" -> generate_basic_search_data(d)
      [] component_name = "analise_ia_avancada" -> generate_basic_ai_analysis(d)
      [] OTHER -> NoneV

\* Returns None for a name outside the three, and when the generator raises
\* (float() of the price is the only expression of the generators that can).
attempt_component_recovery(component_name, d) ==
    CASE component_name = "projeto_dados" ->
            IF FloatRaises(d) THEN NoneV ELSE generate_basic_project_data(d)
      [] component_name = "pesquisa_web_massiva" -> generate_basic_search_data(d)
      [] component_name = "analise_ia_avancada" -> generate_basic_ai_analysis(d)
      [] OTHER -> NoneV

generate_fallback_section(section_name, project_data) ==
    CASE section_name = "avatar_ultra_detalhado" ->
            generate_basic_avatar(SegmentoOf(project_data))
      [] section_name = "posicionamento_estrategico" ->
            generate_basic_positioning(project_data)
      [] section_name = "insights_exclusivos" ->
            [kind |-> "list", n |-> 15, ai |-> 0, pass |-> 0, add |-> 15, origin |-> "additional"]
      [] section_name = "analise_concorrencia_detalhada" ->
            [kind |-> "list", n |-> 1, origin |-> "fallback"]
      [] section_name = "estrategia_palavras_chave" ->
            [kind |-> "dict", origin |-> "fallback"]
      [] OTHER -> EmptyDict

\* ---------------------------------------------------------------- validator
\* A list of pain points is modelled by its length n and by what holds of its
\* first three entries: short (one is under 30 characters) and sim (one
\* contains a phrase of simulation_indicators).
\* any(_is_simulated_insight(dor) for dor in dores[:3])
first_dores_simulated(dores) == dores.short \/ dores.sim

\* variant: five objections are asked for, as for pains and desires
validate_avatar_depth_five_objections(avatar) ==
    LET p1 == IF avatar.perfil_demografico < 4 THEN 20 ELSE 0
        p2 == IF avatar.dores_viscerais.n < 5 THEN 25 ELSE 0
        p3 == IF avatar.desejos_secretos < 5 THEN 25 ELSE 0
        p4 == IF avatar.objecoes_reais < 5 THEN 20 ELSE 0
        p5 == IF avatar.dores_viscerais.short THEN 10 ELSE 0
        score == 100 - p1 - p2 - p3 - p4 - p5
    IN  [valid |-> (p1 + p2 + p3 + p4 + p5 = 0),
         score |-> IF score > 0 THEN score ELSE 0]

validate_avatar_depth(avatar) ==
    LET p1 == IF avatar.perfil_demografico < 4 THEN 20 ELSE 0
        p2 == IF avatar.dores_viscerais.n < 5 THEN 25 ELSE 0
        p3 == IF avatar.desejos_secretos < 5 THEN 25 ELSE 0
        p4 == IF avatar.objecoes_reais < 3 THEN 20 ELSE 0
        p5 == IF avatar.dores_viscerais.short THEN 10 ELSE 0
        score == 100 - p1 - p2 - p3 - p4 - p5
    IN  [valid |-> (p1 + p2 + p3 + p4 + p5 = 0),
         score |-> IF score > 0 THEN score ELSE 0]

\* variant: the first three pains are not put to the authenticity rule
validate_avatar_quality_no_authenticity(avatar) ==
    /\ { "perfil_demografico", "dores_viscerais", "desejos_secretos" } \subseteq DOMAIN avatar
    /\ avatar.perfil_demografico > 0
    /\ avatar.dores_viscerais.n > 0
    /\ avatar.desejos_secretos > 0
    /\ ~(avatar.dores_viscerais.n < 5 \/ avatar.desejos_secretos < 5)

validate_avatar_quality(avatar) ==
    /\ { "perfil_demografico", "dores_viscerais", "desejos_secretos" } \subseteq DOMAIN avatar
    /\ avatar.perfil_demografico > 0
    /\ avatar.dores_viscerais.n > 0
    /\ avatar.desejos_secretos > 0
    /\ ~(avatar.dores_viscerais.n < 5 \/ avatar.desejos_secretos < 5)
    /\ ~first_dores_simulated(avatar.dores_viscerais)

MinHistoriaLen == 100

\* drivers: n entries, complete when each has nome and roteiro_ativacao,
\* historia the length of the shortest historia_analogia
validate_drivers_quality(drivers) ==
    /\ "drivers_customizados" \in DOMAIN drivers
    /\ ~(drivers.drivers_customizados < 3)
    /\ drivers.complete
    /\ ~(drivers.historia < MinHistoriaLen)

\* result.get('fallback_mode') of a mapping
FallbackFlag(result) ==
    result.kind = "dict" /\ "fallback_mode" \in DOMAIN result /\ result.fallback_mode

\* variant: the drivers are not put to their quality rule
validate_component_result_drivers_unchecked(component_name, result) ==
    IF ~Truthy(result) THEN FALSE
    ELSE IF FallbackFlag(result) THEN FALSE
    ELSE CASE component_name = "avatar_ultra_detalhado" ->
                validate_avatar_quality(result)
           [] component_name = "insights_exclusivos" ->
                IF result.kind = "list" THEN result.n >= 10 ELSE FALSE
           [] component_name = "projeto_dados" ->
                /\ "segmento" \in DOMAIN result
                /\ Truthy(result.segmento)
                /\ result.segmento.raw >= MinSegmentLen
           [] component_name = "pesquisa_web_massiva" ->
                Get(result, "total_fontes", 0) >= MinPesquisaFontes
           [] OTHER -> TRUE

validate_component_result(component_name, result) ==
    IF ~Truthy(result) THEN FALSE
    ELSE IF FallbackFlag(result) THEN FALSE
    ELSE CASE component_name = "avatar_ultra_detalhado" ->
                validate_avatar_quality(result)
           [] component_name = "drivers_mentais_customizados" ->
                validate_drivers_quality(result)
           [] component_name = "insights_exclusivos" ->
                IF result.kind = "list" THEN result.n >= 10 ELSE FALSE
           [] component_name = "projeto_dados" ->
                /\ "segmento" \in DOMAIN result
                /\ Truthy(result.segmento)
                /\ result.segmento.raw >= MinSegmentLen
           [] component_name = "pesquisa_web_massiva" ->
                Get(result, "total_fontes", 0) >= MinPesquisaFontes
           [] OTHER -> TRUE

\* ---------------------------------------------------------- stage functions
\* Each takes the accumulated data d and the answer ext of its collaborator.

\* Answers of the search collaborators: primary_met tells whether one of the
\* (at most five) primary result sets met the quality requirements,
\* extractions is the sum of their successful_extractions, basic is the number
\* of results of the secondary search (0: none, -1: it raised).
SearchAnswers ==
    [primary_met : BOOLEAN, extractions : 0..MaxFontes, basic : -1..MaxFontes]

execute_ultra_robust_search(d, ext) ==
    IF ~Truthy(Get(d, "projeto_dados", EmptyDict))
    THEN Raise("PESQUISA_WEB_MASSIVA")
    ELSE IF ~ext.primary_met /\ ext.basic <= 0
    THEN Raise("PESQUISA_WEB_MASSIVA")
    ELSE LET total_sources == IF ext.primary_met THEN ext.extractions ELSE ext.basic
         IN  Return([kind |-> "dict", total_fontes |-> total_sources,
                     resultados_consolidados |-> TRUE, validado |-> TRUE])

\* Answers of the AI collaborator: no response, an unparsable document, or a
\* parsed mapping whose sections may be missing (NoneV) or ill-typed ("bad").
GoodAvatar ==
    [kind |-> "dict", perfil_demografico |-> 7,
     dores_viscerais |-> [n |-> 8, short |-> FALSE, sim |-> FALSE],
     desejos_secretos |-> 8, objecoes_reais |-> 6, metadata_avatar |-> FALSE,
     origin |-> "ai"]

AIAvatars ==
    { GoodAvatar,
      [GoodAvatar EXCEPT !.dores_viscerais = [n |-> 8, short |-> FALSE, sim |-> TRUE]],
      [GoodAvatar EXCEPT !.dores_viscerais = [n |-> 8, short |-> TRUE, sim |-> FALSE]],
      [GoodAvatar EXCEPT !.perfil_demografico = 2,
                         !.dores_viscerais = [n |-> 3, short |-> FALSE, sim |-> FALSE],
                         !.desejos_secretos = 3, !.objecoes_reais = 2],
      NoneV,
      [kind |-> "bad"] }

GoodPositioning == [kind |-> "dict", complete |-> TRUE, origin |-> "ai"]

AIPositionings ==
    { GoodPositioning, [GoodPositioning EXCEPT !.complete = FALSE], NoneV, [kind |-> "bad"] }

\* ai is the number of insights of the AI, pass the number of them that are
\* distinct, longer than 50 characters and free of indicators; add is the
\* number of generated insights appended after them.
AIInsightList(n, pass) ==
    [kind |-> "list", n |-> n, ai |-> n, pass |-> pass, add |-> 0, origin |-> "ai"]

AIInsights == { AIInsightList(MinInsights, MinInsights), AIInsightList(5, 3), NoneV }

\* a list of the AI whose entries are numbers, on which len() raises
NumberInsights ==
    [kind |-> "list", n |-> MinInsights, ai |-> MinInsights, pass |-> 0, add |-> 0,
     origin |-> "ai", numbers |-> TRUE]

HasNumbers(insights) == "numbers" \in DOMAIN insights

ParsedAnalysis(av, pos, ins, fb) ==
    [kind |-> "parsed", avatar_ultra_detalhado |-> av,
     posicionamento_estrategico |-> pos, insights_exclusivos |-> ins,
     fallback_mode |-> fb]

AIAnswers ==
    { [kind |-> "none"], [kind |-> "unparsable"] }
    \cup { ParsedAnalysis(av, GoodPositioning, AIInsightList(MinInsights, MinInsights), FALSE) :
           av \in AIAvatars }
    \cup { ParsedAnalysis(GoodAvatar, pos, AIInsightList(MinInsights, MinInsights), FALSE) :
           pos \in AIPositionings }
    \cup { ParsedAnalysis(GoodAvatar, GoodPositioning, ins, fb) :
           ins \in AIInsights, fb \in BOOLEAN }
    \cup { ParsedAnalysis(GoodAvatar, GoodPositioning, NumberInsights, FALSE) }

\* insights + additional_insights
TopUp(insights, additional) ==
    [insights EXCEPT !.n = insights.n + additional.n, !.add = insights.add + additional.n]

execute_advanced_ai_analysis(d, ext) ==
    LET project_data == Get(d, "projeto_dados", EmptyDict)
        search_data == Get(d, "pesquisa_web_massiva", EmptyDict)
        Section(name) ==
            IF Truthy(ext[name]) THEN ext[name]
            ELSE generate_fallback_section(name, project_data)
        insights == Section("insights_exclusivos")
    IN  IF ~Truthy(project_data) \/ ~Truthy(search_data)
        THEN Raise("ANALISE_IA_AVANCADA")
        ELSE IF ext.kind \in { "none", "unparsable" }
        THEN Raise("ANALISE_IA_AVANCADA")
        ELSE Return(
            [kind |-> "dict",
             avatar_ultra_detalhado |-> Section("avatar_ultra_detalhado"),
             posicionamento_estrategico |-> Section("posicionamento_estrategico"),
             insights_exclusivos |->
                IF insights.n < MinInsights
                THEN TopUp(insights, generate_additional_insights(project_data, search_data))
                ELSE insights,
             fallback_mode |-> ext.fallback_mode,
             metadata_ia |-> TRUE])

\* The six default demographic fields are filled in where missing; the count
\* of fields is modelled as reaching at least six.
enrich_avatar(avatar, project_data) ==
    [avatar EXCEPT !.perfil_demografico = IF @ < 6 THEN 6 ELSE @]

\* The avatar is the object nested in the stored AI analysis: the stage
\* changes it in place and returns it.
extract_avatar_from_analysis(d, ext) ==
    LET ai_analysis == Get(d, "analise_ia_avancada", EmptyDict)
        avatar == Get(ai_analysis, "avatar_ultra_detalhado", EmptyDict)
        project_data == Get(d, "projeto_dados", EmptyDict)
    IN  IF ~Truthy(avatar) \/ avatar.kind = "bad"
        THEN Raise("AVATAR_ULTRA_DETALHADO")
        ELSE
          LET validation_result == validate_avatar_depth(avatar)
              a1 == IF ~validation_result.valid
                    THEN enrich_avatar(avatar, project_data) ELSE avatar
              a2 == IF a1.dores_viscerais.n < 5
                    THEN [a1 EXCEPT !.dores_viscerais = generate_default_dores(project_data)]
                    ELSE a1
              a3 == IF a2.desejos_secretos < 5
                    THEN [a2 EXCEPT !.desejos_secretos = generate_default_desejos(project_data)]
                    ELSE a2
              a4 == IF a3.objecoes_reais < 5
                    THEN [a3 EXCEPT !.objecoes_reais = generate_default_objecoes(project_data)]
                    ELSE a3
              a5 == [a4 EXCEPT !.metadata_avatar = TRUE]
          IN  ReturnWith(a5,
                [k \in { "analise_ia_avancada" } |->
                    [ai_analysis EXCEPT !.avatar_ultra_detalhado = a5]])

extract_positioning_from_analysis(d, ext) ==
    LET ai_analysis == Get(d, "analise_ia_avancada", EmptyDict)
        positioning == Get(ai_analysis, "posicionamento_estrategico", EmptyDict)
        project_data == Get(d, "projeto_dados", EmptyDict)
    IN  IF ~Truthy(positioning)
        THEN Return(generate_basic_positioning(project_data))
        ELSE IF positioning.kind = "bad"
        THEN Raise("POSICIONAMENTO_ESTRATEGICO")
        ELSE LET filled == [positioning EXCEPT !.complete = TRUE]
             IN  ReturnWith(filled,
                    [k \in { "analise_ia_avancada" } |->
                        [ai_analysis EXCEPT !.posicionamento_estrategico = filled]])

\* Answers of the derived-artifact generators: "raise", "none" (an empty
\* value), or a value.
Drivers(n, historia, fb) ==
    [kind |-> "dict", drivers_customizados |-> n, complete |-> TRUE,
     historia |-> historia, fallback_mode |-> fb]

DriversAnswers ==
    { [kind |-> "raise"], NoneV,
      Drivers(3, MinHistoriaLen, TRUE), Drivers(2, MinHistoriaLen, FALSE),
      Drivers(3, MinHistoriaLen - 1, FALSE), Drivers(3, MinHistoriaLen, FALSE) }

\* variant: the drivers are generated whether or not an avatar is stored
generate_mental_drivers_without_avatar(d, ext) ==
    IF ext.kind = "raise" \/ ~Truthy(ext) \/ FallbackFlag(ext)
    THEN Raise("DRIVERS_MENTAIS_CUSTOMIZADOS")
    ELSE IF ext.drivers_customizados < 3
    THEN Raise("DRIVERS_MENTAIS_CUSTOMIZADOS")
    ELSE Return(ext)

generate_mental_drivers(d, ext) ==
    LET avatar_data == Get(d, "avatar_ultra_detalhado", EmptyDict)
    IN  IF ~Truthy(avatar_data)
        THEN Raise("DRIVERS_MENTAIS_CUSTOMIZADOS")
        ELSE IF avatar_data.dores_viscerais.n < 3
        THEN Raise("DRIVERS_MENTAIS_CUSTOMIZADOS")
        ELSE IF ext.kind = "raise" \/ ~Truthy(ext) \/ FallbackFlag(ext)
        THEN Raise("DRIVERS_MENTAIS_CUSTOMIZADOS")
        ELSE IF ext.drivers_customizados < 3
        THEN Raise("DRIVERS_MENTAIS_CUSTOMIZADOS")
        ELSE Return(ext)

\* Whether a concept survives the filter (over 20 characters, none of the
\* four forbidden phrases).  First pain points that passed the authenticity
\* rule are 30 characters or longer and free of the phrases; with fewer than
\* five concepts the five basic ones (27 characters plus the segment) are
\* added; otherwise it depends on texts of the avatar that are not modelled
\* (texts_ok).
extract_proof_concepts(avatar_data, project_data, texts_ok) ==
    IF ~Truthy(avatar_data) THEN TRUE
    ELSE IF avatar_data.dores_viscerais.n > 0 /\ ~first_dores_simulated(avatar_data.dores_viscerais)
    THEN TRUE
    ELSE IF avatar_data.dores_viscerais.n + avatar_data.desejos_secretos < 5
    THEN TRUE
    ELSE texts_ok

\* The list of the proofs generator; fallback tells whether an item has
\* fallback_mode, content is the 'content' text its items carry.
ProofLists ==
    { [kind |-> "raise"], NoneV,
      [kind |-> "list", n |-> 3, fallback |-> TRUE, content |-> Str(RawLen, RawLen, FALSE)],
      [kind |-> "list", n |-> 2, fallback |-> FALSE, content |-> Str(RawLen, RawLen, FALSE)],
      [kind |-> "list", n |-> 3, fallback |-> FALSE, content |-> Str(RawLen, RawLen, FALSE)] }

ProofsAnswers == [proofs : ProofLists, texts_ok : BOOLEAN]

generate_visual_proofs(d, ext) ==
    IF ~extract_proof_concepts(Get(d, "avatar_ultra_detalhado", EmptyDict),
                               Get(d, "projeto_dados", EmptyDict), ext.texts_ok)
    THEN Raise("PROVAS_VISUAIS_INSTANTANEAS")
    ELSE IF ext.proofs.kind = "raise" \/ ~Truthy(ext.proofs) \/ ext.proofs.fallback
    THEN Raise("PROVAS_VISUAIS_INSTANTANEAS")
    ELSE IF ext.proofs.n < 3
    THEN Raise("PROVAS_VISUAIS_INSTANTANEAS")
    ELSE Return(ext.proofs)

AntiObjectionAnswers ==
    { [kind |-> "raise"], NoneV,
      [kind |-> "dict", fallback_mode |-> TRUE],
      [kind |-> "dict", fallback_mode |-> FALSE] }

generate_anti_objection(d, ext) ==
    IF ext.kind = "raise" \/ ~Truthy(ext) \/ FallbackFlag(ext)
    THEN Raise("SISTEMA_ANTI_OBJECAO")
    ELSE Return(ext)

PrePitchAnswers ==
    { [kind |-> "raise"], NoneV,
      [kind |-> "dict", status |-> "EMERGENCY_MODE"],
      [kind |-> "dict", status |-> "OK"] }

\* variant: a pre-pitch in emergency mode is returned like any other
generate_pre_pitch_emergency_accepted(d, ext) ==
    LET drivers_data == Get(d, "drivers_mentais_customizados", EmptyDict)
        avatar_data == Get(d, "avatar_ultra_detalhado", EmptyDict)
    IN  IF ~Truthy(drivers_data) \/ ~Truthy(avatar_data)
        THEN Raise("PRE_PITCH_INVISIVEL")
        ELSE IF drivers_data.drivers_customizados < 2
        THEN Raise("PRE_PITCH_INVISIVEL")
        ELSE IF ext.kind = "raise" \/ ~Truthy(ext)
        THEN Raise("PRE_PITCH_INVISIVEL")
        ELSE Return(ext)

generate_pre_pitch(d, ext) ==
    LET drivers_data == Get(d, "drivers_mentais_customizados", EmptyDict)
        avatar_data == Get(d, "avatar_ultra_detalhado", EmptyDict)
    IN  IF ~Truthy(drivers_data) \/ ~Truthy(avatar_data)
        THEN Raise("PRE_PITCH_INVISIVEL")
        ELSE IF drivers_data.drivers_customizados < 2
        THEN Raise("PRE_PITCH_INVISIVEL")
        ELSE IF ext.kind = "raise" \/ ~Truthy(ext) \/ ext.status = "EMERGENCY_MODE"
        THEN Raise("PRE_PITCH_INVISIVEL")
        ELSE Return(ext)

\* a prediction may itself carry fallback_mode, which only the validator sees
PredictionAnswers ==
    { [kind |-> "raise"], NoneV,
      [kind |-> "dict", fallback_mode |-> TRUE, raw_content |-> Str(RawLen, RawLen, FALSE)],
      [kind |-> "dict", fallback_mode |-> FALSE, raw_content |-> Str(RawLen, RawLen, FALSE)] }

generate_future_predictions(d, ext) ==
    IF ext.kind = "raise" \/ ~Truthy(ext)
    THEN Raise("PREDICOES_FUTURO_COMPLETAS")
    ELSE Return(ext)

\* How many of the first k generated insights are longer than 50 characters
\* and free of indicators: seven of the twenty embed the segment (base lengths
\* 64, 48, 56, 57, 43, 51, 44), three of the others are 50 characters or less.
additional_passing(segmento, k) ==
    LET L == segmento.raw
        B(c) == IF c THEN 1 ELSE 0
    IN  IF k = 0 THEN 0
        ELSE IF k = 15
        THEN IF segmento.sim THEN 9 ELSE 12 + B(L >= 3) + B(L >= 8)
        ELSE IF segmento.sim THEN 10 ELSE 14 + B(L >= 3) + B(L >= 7) + B(L >= 8)

extract_insights_from_search(search_data) ==
    IF Truthy(search_data) /\ "resultados_consolidados" \in DOMAIN search_data
       /\ search_data.total_fontes > 0
    THEN 1 ELSE 0

extract_component_insights(d) ==
    LET Present(k) == Truthy(Get(d, k, EmptyDict))
        B(c) == IF c THEN 1 ELSE 0
    IN  B(Present("drivers_mentais_customizados")
            /\ ~FallbackFlag(d["drivers_mentais_customizados"]))
      + B(Present("provas_visuais_instantaneas")
            /\ ~d["provas_visuais_instantaneas"].fallback)
      + B(Present("sistema_anti_objecao") /\ ~FallbackFlag(d["sistema_anti_objecao"]))

\* n is the length of the returned list, dup tells whether an entry occurs
\* twice in it.
generate_final_insights(d, ext) ==
    LET ai_analysis == Get(d, "analise_ia_avancada", EmptyDict)
        ai_insights == Get(ai_analysis, "insights_exclusivos", EmptyList)
        project_data == Get(d, "projeto_dados", EmptyDict)
        from_ai == IF Truthy(ai_insights)
                   THEN ai_insights.pass
                        + additional_passing(SegmentoOf(project_data), ai_insights.add)
                   ELSE 0
        unique == from_ai
                  + extract_insights_from_search(Get(d, "pesquisa_web_massiva", EmptyDict))
                  + extract_component_insights(d)
        additional_insights ==
            generate_additional_insights(project_data,
                                         Get(d, "pesquisa_web_massiva", EmptyDict))
        total == IF unique < MinInsights THEN unique + additional_insights.n ELSE unique
    IN  IF Truthy(ai_insights) /\ HasNumbers(ai_insights)
        THEN Return([kind |-> "list",
                     n |-> generate_additional_insights(project_data, EmptyDict).n,
                     dup |-> FALSE, origin |-> "final"])
        ELSE Return([kind |-> "list", n |-> IF total > 30 THEN 30 ELSE total,
                dup |-> (unique < MinInsights /\ Truthy(ai_insights) /\ ai_insights.add > 0),
                origin |-> "final"])

\* ------------------------------------------------------------- dispatching
Answers(component_name) ==
    CASE component_name = "pesquisa_web_massiva" -> SearchAnswers
      [] component_name = "analise_ia_avancada" -> AIAnswers
      [] component_name = "drivers_mentais_customizados" -> DriversAnswers
      [] component_name = "provas_visuais_instantaneas" -> ProofsAnswers
      [] component_name = "sistema_anti_objecao" -> AntiObjectionAnswers
      [] component_name = "pre_pitch_invisivel" -> PrePitchAnswers
      [] component_name = "predicoes_futuro_completas" -> PredictionAnswers
      [] OTHER -> { NoneV }

component_func(component_name, d, ext) ==
    CASE component_name = "projeto_dados" -> prepare_project_data(d)
      [] component_name = "pesquisa_web_massiva" -> execute_ultra_robust_search(d, ext)
      [] component_name = "analise_ia_avancada" -> execute_advanced_ai_analysis(d, ext)
      [] component_name = "avatar_ultra_detalhado" -> extract_avatar_from_analysis(d, ext)
      [] component_name = "posicionamento_estrategico" -> extract_positioning_from_analysis(d, ext)
      [] component_name = "drivers_mentais_customizados" -> generate_mental_drivers(d, ext)
      [] component_name = "provas_visuais_instantaneas" -> generate_visual_proofs(d, ext)
      [] component_name = "sistema_anti_objecao" -> generate_anti_objection(d, ext)
      [] component_name = "pre_pitch_invisivel" -> generate_pre_pitch(d, ext)
      [] component_name = "predicoes_futuro_completas" -> generate_future_predictions(d, ext)
      [] OTHER -> generate_final_insights(d, ext)

\* ------------------------------------------------------------------- state
VARIABLES
    pc,                     \* position in execute_complete_analysis
    hook_failures_left,     \* how many more times salvar_etapa / salvar_erro raise
    data,                   \* the caller's input mapping
    i,                      \* index of the current component
    results,                \* results: component name -> stored value
    successful_components,
    failed_components,
    component_data,         \* the data passed to the current component
    pending,                \* what the current component function did
    final_analysis,
    quality_validation,
    clean_analysis,         \* the returned mapping
    error,                  \* the exception that left the method
    invoked,                \* history: component functions called, in order
    seen,                   \* history: component name -> data it was passed
    recovery_calls,         \* history: names given to _attempt_component_recovery
    search,                 \* the web-search stage in progress: queries, position, result sets, calls
    response                \* the AI collaborator's response being processed

vars ==
    << pc, hook_failures_left, data, i, results, successful_components,
       failed_components, component_data, pending, final_analysis,
       quality_validation, clean_analysis, error, invoked, seen, recovery_calls,
       search, response >>

EmptyMap == [k \in {} |-> NoneV]
NoError == [kind |-> "none", names |-> {}]

\* the web-search stage is not running
NoSearch == [queries |-> << >>, q |-> 0, search_results |-> << >>, calls |-> << >>]

\* no response is being processed; plain is the response without its defects
\* and repairable tells whether there is one, both kept for comparison
NoResponse == [text |-> "", plain |-> "", repairable |-> FALSE]

\* What a persistence hook can do: return (FALSE) or raise (TRUE).
HookOutcomes == IF hook_failures_left > 0 THEN BOOLEAN ELSE { FALSE }

\* The hooks of one pass of the loop body: the second one (salvar_erro of the
\* handler) is reached only when the first one raised.
HookPairs ==
    { h \in HookOutcomes \X HookOutcomes :
        /\ (h[2] => h[1])
        /\ (IF h[1] THEN 1 ELSE 0) + (IF h[2] THEN 1 ELSE 0) <= hook_failures_left }

HooksUsed(h) == (IF h[1] THEN 1 ELSE 0) + (IF h[2] THEN 1 ELSE 0)

\* The inputs of the runs with raising hooks: a segment of full length.
HookInputs ==
    { d \in Inputs : "segmento" \in DOMAIN d /\ d["segmento"].strip = MaxSegLen
                      /\ ~d["segmento"].sim }

InitWith(hooks, inputs) ==
    /\ pc = "start"
    /\ hook_failures_left = hooks
    /\ data \in inputs
    /\ i = 1
    /\ results = EmptyMap
    /\ successful_components = << >>
    /\ failed_components = << >>
    /\ component_data = EmptyMap
    /\ pending = NoneV
    /\ final_analysis = EmptyMap
    /\ quality_validation = NoneV
    /\ clean_analysis = EmptyMap
    /\ error = NoError
    /\ invoked = << >>
    /\ seen = EmptyMap
    /\ recovery_calls = << >>
    /\ search = NoSearch
    /\ response = NoResponse

Init == InitWith(0, Inputs)

InitHooks == InitWith(MaxHookFailures, HookInputs)

\* salvar_etapa("pipeline_iniciado", ...) before the loop
StartPipeline ==
    /\ pc = "start"
    /\ \E hook_raises \in HookOutcomes :
         IF hook_raises
         THEN /\ pc' = "raised" /\ error' = [kind |-> "hook", names |-> {}]
              /\ hook_failures_left' = hook_failures_left - 1
         ELSE /\ pc' = "loop" /\ error' = error
              /\ hook_failures_left' = hook_failures_left
    /\ UNCHANGED << data, i, results, successful_components,
                    failed_components, component_data, pending, final_analysis,
                    quality_validation, clean_analysis, invoked, seen, recovery_calls, search, response >>

\* results[name] = value
Store(res, name, value) == Merge(res, [k \in { name } |-> value])

\* objects stored in results that a stage function changed in place
ApplyEffects(res, effects) ==
    [k \in DOMAIN res |-> IF k \in DOMAIN effects THEN effects[k] ELSE res[k]]

\* variant: {**results, **data}, the input shadows the results
ComponentData_input_wins(d, res) == Merge(res, d)

\* component_data = {**data, **results}
ComponentData(d, res) == Merge(d, res)

\* result = component_func(component_data, session_id)
InvokeComponent ==
    /\ pc = "loop"
    /\ i <= NumComponents
    /\ \E ext \in Answers(components[i]) :
         LET cd == ComponentData(data, results)
             out == component_func(components[i], cd, ext)
         IN  /\ component_data' = cd
             /\ pending' = out
             /\ results' = ApplyEffects(results, out.effects)
             /\ seen' = Store(seen, components[i], cd)
    /\ invoked' = Append(invoked, components[i])
    /\ pc' = "called"
    /\ UNCHANGED << hook_failures_left, data, i, successful_components,
                    failed_components, final_analysis, quality_validation,
                    clean_analysis, error, recovery_calls, search, response >>

\* The state the loop body leaves behind: next tells whether the loop goes on
\* to the next component or the exception err leaves the method.
Outcome(res, succ, fail, calls, err) ==
    [results |-> res, successful |-> succ, failed |-> fail, calls |-> calls,
     error |-> err]

\* variant: the fatal error does not name the stage
MandatoryError_unnamed(name) == [kind |-> "mandatory", names |-> {}]

MandatoryError(name) == [kind |-> "mandatory", names |-> { name }]
HookError == [kind |-> "hook", names |-> {}]

\* variant: any raising stage is treated as mandatory
except_handler_abort_any(name, res, succ, fail, calls, hook_raises) ==
    LET fail2 == Append(fail, name)
        recovery_result == attempt_component_recovery(name, Merge(data, res))
        calls2 == Append(calls, name)
    IN  IF Truthy(recovery_result)
        THEN Outcome(Store(res, name, recovery_result), Append(succ, name), fail2, calls2,
                     IF hook_raises THEN HookError ELSE NoError)
        ELSE Outcome(res, succ, fail2, calls2, MandatoryError(name))

\* variant: a recovered stage is stored but not recorded as successful
except_handler_recovery_not_counted(name, res, succ, fail, calls, hook_raises) ==
    LET fail2 == Append(fail, name)
        after_hook(r, s, c) ==
            Outcome(r, s, fail2, c, IF hook_raises THEN HookError ELSE NoError)
    IN  IF name \in mandatory_components
        THEN LET recovery_result == attempt_component_recovery(name, Merge(data, res))
                 calls2 == Append(calls, name)
             IN  IF Truthy(recovery_result)
                 THEN after_hook(Store(res, name, recovery_result), succ, calls2)
                 ELSE Outcome(res, succ, fail2, calls2, MandatoryError(name))
        ELSE after_hook(res, succ, calls)

\* variant: a failed recovery is swallowed and the loop goes on
except_handler_swallow(name, res, succ, fail, calls, hook_raises) ==
    LET fail2 == Append(fail, name)
        after_hook(r, s, c) ==
            Outcome(r, s, fail2, c, IF hook_raises THEN HookError ELSE NoError)
    IN  IF name \in mandatory_components
        THEN LET recovery_result == attempt_component_recovery(name, Merge(data, res))
                 calls2 == Append(calls, name)
             IN  IF Truthy(recovery_result)
                 THEN after_hook(Store(res, name, recovery_result), Append(succ, name), calls2)
                 ELSE after_hook(res, succ, calls2)
        ELSE after_hook(res, succ, calls)

\* The handler "except Exception as e" of the loop body (lines 118-135),
\* entered with the lists and results as the try block left them.
\* hook_raises is what salvar_erro does at its end.
\* variant: a stage that was recovered is taken off the failed list
except_handler_recovered_not_failed(name, res, succ, fail, calls, hook_raises) ==
    LET fail2 == Append(fail, name)
        after_hook(r, s, f, c) ==
            Outcome(r, s, f, c, IF hook_raises THEN HookError ELSE NoError)
    IN  IF name \in mandatory_components
        THEN LET recovery_result == attempt_component_recovery(name, Merge(data, res))
                 calls2 == Append(calls, name)
             IN  IF Truthy(recovery_result)
                 THEN after_hook(Store(res, name, recovery_result), Append(succ, name),
                                 fail, calls2)
                 ELSE Outcome(res, succ, fail2, calls2, MandatoryError(name))
        ELSE after_hook(res, succ, fail2, calls)

except_handler(name, res, succ, fail, calls, hook_raises) ==
    LET fail2 == Append(fail, name)
        after_hook(r, s, c) ==
            Outcome(r, s, fail2, c, IF hook_raises THEN HookError ELSE NoError)
    IN  IF name \in mandatory_components
        THEN LET recovery_result == attempt_component_recovery(name, Merge(data, res))
                 calls2 == Append(calls, name)
             IN  IF Truthy(recovery_result)
                 THEN after_hook(Store(res, name, recovery_result), Append(succ, name), calls2)
                 ELSE Outcome(res, succ, fail2, calls2, MandatoryError(name))
        ELSE after_hook(res, succ, calls)

\* variant: a stage recovered after an invalid result is stored but not
\* recorded as successful
else_branch_recovery_not_counted(name, cd, res, succ, fail, calls, hook_raises, hook2_raises) ==
    LET fail1 == Append(fail, name)
    IN  IF name \in mandatory_components
        THEN LET recovery_result == attempt_component_recovery(name, cd)
                 calls1 == Append(calls, name)
             IN  IF Truthy(recovery_result)
                 THEN Outcome(Store(res, name, recovery_result), succ, fail1, calls1, NoError)
                 ELSE except_handler(name, res, succ, fail1, calls1, hook2_raises)
        ELSE Outcome(res, succ, fail1, calls, NoError)

\* variant: recovery is attempted a second time after an invalid result
else_branch_second_recovery(name, cd, res, succ, fail, calls, hook_raises, hook2_raises) ==
    LET fail1 == Append(fail, name)
    IN  IF name \in mandatory_components
        THEN LET recovery_result == attempt_component_recovery(name, cd)
                 calls1 == Append(Append(calls, name), name)
             IN  IF Truthy(recovery_result)
                 THEN Outcome(Store(res, name, recovery_result),
                              Append(succ, name), fail1, calls1, NoError)
                 ELSE except_handler(name, res, succ, fail1, calls1, hook2_raises)
        ELSE Outcome(res, succ, fail1, calls, NoError)

\* The branch "else" of the validity test (lines 98-116); an exception raised
\* in it (the raise of line 111, or salvar_erro raising) is caught by the
\* handler above.
else_branch(name, cd, res, succ, fail, calls, hook_raises, hook2_raises) ==
    LET fail1 == Append(fail, name)
    IN  IF name \in mandatory_components
        THEN LET recovery_result == attempt_component_recovery(name, cd)
                 calls1 == Append(calls, name)
             IN  IF Truthy(recovery_result)
                 THEN IF hook_raises
                      THEN except_handler(name, Store(res, name, recovery_result),
                                          Append(succ, name), fail1, calls1, hook2_raises)
                      ELSE Outcome(Store(res, name, recovery_result),
                                   Append(succ, name), fail1, calls1, NoError)
                 ELSE except_handler(name, res, succ, fail1, calls1, hook2_raises)
        ELSE IF hook_raises
             THEN except_handler(name, res, succ, fail1, calls, hook2_raises)
             ELSE Outcome(res, succ, fail1, calls, NoError)

\* variant: a valid result is stored but not recorded as successful
success_branch_no_append(name, value, res, succ, fail, calls, hook_raises, hook2_raises) ==
    IF hook_raises
    THEN except_handler(name, Store(res, name, value), succ, fail, calls, hook2_raises)
    ELSE Outcome(Store(res, name, value), succ, fail, calls, NoError)

\* The branch of a valid result (lines 91-97); salvar_etapa raising is caught
\* by the handler.
success_branch(name, value, res, succ, fail, calls, hook_raises, hook2_raises) ==
    IF hook_raises
    THEN except_handler(name, Store(res, name, value), Append(succ, name),
                        fail, calls, hook2_raises)
    ELSE Outcome(Store(res, name, value), Append(succ, name), fail, calls, NoError)

\* variant: the loop does not advance to the next component
Resolve_no_advance(o) ==
    /\ results' = o.results
    /\ successful_components' = o.successful
    /\ failed_components' = o.failed
    /\ recovery_calls' = o.calls
    /\ error' = o.error
    /\ IF o.error.kind = "none"
       THEN pc' = "loop" /\ i' = i
       ELSE pc' = "raised" /\ i' = i
    /\ pending' = NoneV
    /\ UNCHANGED << data, component_data, final_analysis,
                    quality_validation, clean_analysis, invoked, seen, search, response >>

\* Leaves the loop body with outcome o.
Resolve(o) ==
    /\ results' = o.results
    /\ successful_components' = o.successful
    /\ failed_components' = o.failed
    /\ recovery_calls' = o.calls
    /\ error' = o.error
    /\ IF o.error.kind = "none"
       THEN pc' = "loop" /\ i' = i + 1
       ELSE pc' = "raised" /\ i' = i
    /\ pending' = NoneV
    /\ UNCHANGED << data, component_data, final_analysis,
                    quality_validation, clean_analysis, invoked, seen, search, response >>

ResultAccepted ==
    /\ ~pending.raised
    /\ Truthy(pending.value)
    /\ validate_component_result(components[i], pending.value)

\* result and _validate_component_result(...) holds: store and go on
ComponentSucceeded ==
    /\ pc = "called"
    /\ ResultAccepted
    /\ \E h \in HookPairs :
         /\ Resolve(success_branch(components[i], pending.value, results,
                                   successful_components, failed_components,
                                   recovery_calls, h[1], h[2]))
         /\ hook_failures_left' = hook_failures_left - HooksUsed(h)

\* the component returned an empty or invalid result
ComponentRejected ==
    /\ pc = "called"
    /\ ~pending.raised
    /\ ~ResultAccepted
    /\ \E h \in HookPairs :
         /\ Resolve(else_branch(components[i], component_data, results,
                                successful_components, failed_components,
                                recovery_calls, h[1], h[2]))
         /\ hook_failures_left' = hook_failures_left - HooksUsed(h)

\* the component raised
ComponentRaised ==
    /\ pc = "called"
    /\ pending.raised
    /\ \E hook_raises \in HookOutcomes :
         /\ Resolve(except_handler(components[i], results, successful_components,
                                   failed_components, recovery_calls, hook_raises))
         /\ hook_failures_left' = hook_failures_left - (IF hook_raises THEN 1 ELSE 0)

\* ------------------------------------------------------------ consolidation
\* len(successful) / len(self.components) * 100, kept as a fraction
SuccessRate(succ) == [num |-> Len(succ) * 100, den |-> NumComponents]

\* variant: thresholds of 0.9 and 0.7
StatusOf_higher(succ) ==
    IF Len(succ) * 10 >= NumComponents * 9 THEN "COMPLETO"
    ELSE IF Len(succ) * 10 >= NumComponents * 7 THEN "PARCIAL_VALIDO"
    ELSE "MINIMO_PRESERVADO"

\* len(successful) >= len(self.components) * 0.8, in tenths
StatusOf(succ) ==
    IF Len(succ) * 10 >= NumComponents * 8 THEN "COMPLETO"
    ELSE IF Len(succ) * 10 >= NumComponents * 6 THEN "PARCIAL_VALIDO"
    ELSE "MINIMO_PRESERVADO"

consolidation_required ==
    << "pesquisa_web_massiva", "analise_ia_avancada", "avatar_ultra_detalhado",
       "posicionamento_estrategico", "insights_exclusivos" >>

\* variant: a missing required section is left absent
consolidate_final_analysis_no_fill(original_data, res, succ, fail) ==
    LET base ==
            [k \in { "projeto_dados", "pipeline_status" } |->
                IF k = "projeto_dados"
                THEN Get(res, "projeto_dados", generate_basic_project_data(original_data))
                ELSE [kind |-> "dict",
                      componentes_executados |-> succ,
                      componentes_falharam |-> fail,
                      taxa_sucesso |-> SuccessRate(succ)]]
        copied ==
            Merge(base, [k \in (Range(succ) \cap DOMAIN res) |-> res[k]])
    IN  Merge(copied, [k \in { "status" } |-> [kind |-> "status", value |-> StatusOf(succ)]])

consolidate_final_analysis(original_data, res, succ, fail) ==
    LET base ==
            [k \in { "projeto_dados", "pipeline_status" } |->
                IF k = "projeto_dados"
                THEN Get(res, "projeto_dados", generate_basic_project_data(original_data))
                ELSE [kind |-> "dict",
                      componentes_executados |-> succ,
                      componentes_falharam |-> fail,
                      taxa_sucesso |-> SuccessRate(succ)]]
        copied ==
            Merge(base, [k \in (Range(succ) \cap DOMAIN res) |-> res[k]])
        missing == { c \in Range(consolidation_required) : c \notin DOMAIN copied }
        filled ==
            Merge(copied,
                  [c \in missing |-> generate_fallback_section(c, copied["projeto_dados"])])
    IN  Merge(filled, [k \in { "status" } |-> [kind |-> "status", value |-> StatusOf(succ)]])

\* --------------------------------------------------------- quality scoring
quality_required ==
    { "projeto_dados", "pesquisa_web_massiva", "analise_ia_avancada",
      "avatar_ultra_detalhado", "posicionamento_estrategico", "insights_exclusivos" }

\* variant: the insight part is not capped at min_insights
validate_final_quality_insights_uncapped(analysis) ==
    LET present == Cardinality({ c \in quality_required :
                                   c \in DOMAIN analysis /\ Truthy(analysis[c]) })
        insights == Get(analysis, "insights_exclusivos", EmptyList)
        avatar == Get(analysis, "avatar_ultra_detalhado", EmptyDict)
        search_data == Get(analysis, "pesquisa_web_massiva", EmptyDict)
        part1 == 20 * present
        part2 == 5 * insights.n
        part3 == IF Truthy(avatar) THEN 3 * (validate_avatar_depth(avatar).score \div 5) ELSE 0
        sources_ok == Truthy(search_data) /\ Get(search_data, "total_fontes", 0) >= MinSources
        part4 == IF sources_ok THEN 45 ELSE 0
        score3 == part1 + part2 + part3 + part4
    IN  [kind |-> "dict",
         score3 |-> IF score3 > 300 THEN 300 ELSE score3,
         missing_components |-> (present < Cardinality(quality_required)),
         insufficient_insights |-> ~(insights.n >= MinInsights),
         insufficient_sources |-> ~sources_ok,
         meets_minimum |-> (score3 >= 285)]

\* variant: the 15 points of the search are given whatever the sources
validate_final_quality_sources_ignored(analysis) ==
    LET present == Cardinality({ c \in quality_required :
                                   c \in DOMAIN analysis /\ Truthy(analysis[c]) })
        insights == Get(analysis, "insights_exclusivos", EmptyList)
        avatar == Get(analysis, "avatar_ultra_detalhado", EmptyDict)
        part1 == 20 * present
        part2 == IF insights.n >= MinInsights THEN 75 ELSE 5 * insights.n
        part3 == IF Truthy(avatar) THEN 3 * (validate_avatar_depth(avatar).score \div 5) ELSE 0
        score3 == part1 + part2 + part3 + 45
    IN  [kind |-> "dict",
         score3 |-> IF score3 > 300 THEN 300 ELSE score3,
         missing_components |-> (present < Cardinality(quality_required)),
         insufficient_insights |-> ~(insights.n >= MinInsights),
         insufficient_sources |-> FALSE,
         meets_minimum |-> (score3 >= 285)]

\* The score is kept times three, which makes every part an integer:
\* 40*p/6 = 20p/3, 25*n/15 = 5n/3, 20*depth/100 = depth/5.
validate_final_quality(analysis) ==
    LET present == Cardinality({ c \in quality_required :
                                   c \in DOMAIN analysis /\ Truthy(analysis[c]) })
        insights == Get(analysis, "insights_exclusivos", EmptyList)
        avatar == Get(analysis, "avatar_ultra_detalhado", EmptyDict)
        search_data == Get(analysis, "pesquisa_web_massiva", EmptyDict)
        part1 == 20 * present
        part2 == IF insights.n >= MinInsights THEN 75 ELSE 5 * insights.n
        part3 == IF Truthy(avatar) THEN 3 * (validate_avatar_depth(avatar).score \div 5) ELSE 0
        sources_ok == Truthy(search_data) /\ Get(search_data, "total_fontes", 0) >= MinSources
        part4 == IF sources_ok THEN 45 ELSE 0
        score3 == part1 + part2 + part3 + part4
    IN  [kind |-> "dict",
         score3 |-> IF score3 > 300 THEN 300 ELSE score3,
         missing_components |-> (present < Cardinality(quality_required)),
         insufficient_insights |-> ~(insights.n >= MinInsights),
         insufficient_sources |-> ~sources_ok,
         meets_minimum |-> (score3 >= 285)]

\* variant: the pass also replaces the positioning by the basic one
enhance_analysis_quality_resets_positioning(analysis) ==
    [analysis EXCEPT !["posicionamento_estrategico"] =
        generate_basic_positioning(analysis["projeto_dados"])]

\* The avatar of the analysis is enriched in place: the object is also the one
\* nested in the AI analysis when the avatar stage returned it.
enhance_analysis_quality(analysis) ==
    LET insights == Get(analysis, "insights_exclusivos", EmptyList)
        a1 == IF insights.n < MinInsights
              THEN [analysis EXCEPT !["insights_exclusivos"] =
                        [insights EXCEPT !.n = MinInsights]]
              ELSE analysis
        avatar == Get(a1, "avatar_ultra_detalhado", EmptyDict)
    IN  IF Truthy(avatar) /\ ~validate_avatar_depth(avatar).valid
        THEN LET enriched == enrich_avatar(avatar, a1["projeto_dados"])
                 a2 == [a1 EXCEPT !["avatar_ultra_detalhado"] = enriched]
             IN  IF a1["analise_ia_avancada"].avatar_ultra_detalhado = avatar
                 THEN [a2 EXCEPT !["analise_ia_avancada"].avatar_ultra_detalhado = enriched]
                 ELSE a2
        ELSE a1

\* --------------------------------------------------------------- redaction
\* The raw-payload field a collaborator's mapping carries in this model and
\* the statistic that replaces it.
raw_data_fields ==
    { "extracted_content", "raw_content", "page_content", "html_content",
      "search_results", "urls_found", "links_extracted", "raw_response",
      "full_content", "content_preview", "detailed_results", "sources_raw",
      "extraction_details", "raw_data", "content_raw", "html_raw" }

filter_dict_raw_data(value) ==
    LET kept == DOMAIN value \ raw_data_fields
        dropped == DOMAIN value \cap raw_data_fields
        stats == IF "raw_content" \in dropped /\ value["raw_content"].kind = "str"
                 THEN { "raw_content_length" } ELSE {}
    IN  [k \in kept \cup stats |->
            IF k \in kept THEN value[k] ELSE value["raw_content"].raw]

\* items that are mappings lose 'content' and get 'content_length'
filter_list_raw_data(value) ==
    IF "content" \in DOMAIN value
    THEN [k \in (DOMAIN value \ { "content" }) \cup { "content_length" } |->
            IF k = "content_length" THEN value["content"].raw ELSE value[k]]
    ELSE value

filter_raw_data_from_report(analysis) ==
    [k \in DOMAIN analysis |->
        IF k \in { "projeto_dados", "pipeline_status", "metadata" } THEN analysis[k]
        ELSE IF analysis[k].kind = "dict" THEN filter_dict_raw_data(analysis[k])
        ELSE IF analysis[k].kind = "list" THEN filter_list_raw_data(analysis[k])
        ELSE analysis[k]]

\* ------------------------------------------------- redaction, nested values
\* The three filter functions on explicit nested structures.  A value is
\*   Str(..)                      a string
\*   [kind "int", v]              any other scalar
\*   [kind "map", m]              a mapping: m is the sequence of its entries
\*                                [k, v] in insertion order, keys distinct
\*   [kind "seq", s]              a sequence of values
\* The operators above are these functions on the stage values of the
\* pipeline, whose mappings hold scalars and at most the raw field raw_content.
IntV(n) == [kind |-> "int", v |-> n]
MapV(m) == [kind |-> "map", m |-> m]
SeqV(s) == [kind |-> "seq", s |-> s]
Entry(k, v) == [k |-> k, v |-> v]

\* the keys of the entries m
KeysOf(m) == { m[j].k : j \in 1..Len(m) }

\* m[key] of the entries m
ValueAt(m, key) == (CHOOSE e \in Range(m) : e.k = key).v

\* filtered[key] = value: an existing key keeps its place
Put(m, key, value) ==
    IF key \in KeysOf(m)
    THEN [j \in 1..Len(m) |-> IF m[j].k = key THEN Entry(key, value) ELSE m[j]]
    ELSE Append(m, Entry(key, value))

\* key.lower(), for the keys of this model
Lower(key) ==
    CASE key = "RAW_DATA" -> "raw_data"
      [] OTHER -> key

\* ['content', 'raw_content', 'html', 'full_text']
item_content_fields == { "content", "raw_content", "html", "full_text" }

structural_keys == { "projeto_dados", "pipeline_status", "metadata" }

RECURSIVE filter_dict_entries_same_key(_, _, _)
RECURSIVE filter_dict_entries(_, _, _)
RECURSIVE filter_item_entries(_, _, _)
RECURSIVE filter_dict_raw_data_nested(_)
RECURSIVE filter_list_raw_data_nested(_)

\* variant: the statistic is stored under the raw key itself
filter_dict_entries_same_key(m, j, filtered) ==
    IF j > Len(m) THEN filtered
    ELSE LET key == m[j].k
             value == m[j].v
             updated ==
               IF Lower(key) \in raw_data_fields
               THEN IF value.kind = "seq"
                    THEN Put(filtered, key, IntV(Len(value.s)))
                    ELSE IF value.kind = "str"
                    THEN Put(filtered, key, IntV(value.raw))
                    ELSE filtered
               ELSE IF value.kind = "map"
               THEN Put(filtered, key, filter_dict_raw_data_nested(value))
               ELSE IF value.kind = "seq"
               THEN Put(filtered, key, filter_list_raw_data_nested(value))
               ELSE Put(filtered, key, value)
         IN  filter_dict_entries_same_key(m, j + 1, updated)

\* the loop of _filter_dict_raw_data from entry j on
filter_dict_entries(m, j, filtered) ==
    IF j > Len(m) THEN filtered
    ELSE LET key == m[j].k
             value == m[j].v
             updated ==
               IF Lower(key) \in raw_data_fields
               THEN IF value.kind = "seq"
                    THEN Put(filtered, key \o "_count", IntV(Len(value.s)))
                    ELSE IF value.kind = "str"
                    THEN Put(filtered, key \o "_length", IntV(value.raw))
                    ELSE filtered
               ELSE IF value.kind = "map"
               THEN Put(filtered, key, filter_dict_raw_data_nested(value))
               ELSE IF value.kind = "seq"
               THEN Put(filtered, key, filter_list_raw_data_nested(value))
               ELSE Put(filtered, key, value)
         IN  filter_dict_entries(m, j + 1, updated)

filter_dict_raw_data_nested(value) == MapV(filter_dict_entries(value.m, 1, << >>))

\* the inner loop of _filter_list_raw_data over the entries of one item
filter_item_entries(m, j, clean_item) ==
    IF j > Len(m) THEN clean_item
    ELSE LET key == m[j].k
             value == m[j].v
             updated ==
               IF Lower(key) \notin item_content_fields
               THEN IF value.kind = "map"
                    THEN Put(clean_item, key, filter_dict_raw_data_nested(value))
                    ELSE IF value.kind = "seq"
                    THEN Put(clean_item, key, filter_list_raw_data_nested(value))
                    ELSE Put(clean_item, key, value)
               ELSE IF value.kind = "str"
               THEN Put(clean_item, key \o "_length", IntV(value.raw))
               ELSE clean_item
         IN  filter_item_entries(m, j + 1, updated)

filter_list_raw_data_nested(value) ==
    SeqV([j \in 1..Len(value.s) |->
            IF value.s[j].kind = "map"
            THEN MapV(filter_item_entries(value.s[j].m, 1, << >>))
            ELSE value.s[j]])

\* variant: the structural keys are filtered like every other key
filter_raw_data_from_report_nested_no_bypass(analysis) ==
    MapV([j \in 1..Len(analysis.m) |->
            LET key == analysis.m[j].k
                value == analysis.m[j].v
            IN  Entry(key,
                      IF value.kind = "map" THEN filter_dict_raw_data_nested(value)
                      ELSE IF value.kind = "seq" THEN filter_list_raw_data_nested(value)
                      ELSE value)])

filter_raw_data_from_report_nested(analysis) ==
    MapV([j \in 1..Len(analysis.m) |->
            LET key == analysis.m[j].k
                value == analysis.m[j].v
            IN  Entry(key,
                      IF key \in structural_keys THEN value
                      ELSE IF value.kind = "map" THEN filter_dict_raw_data_nested(value)
                      ELSE IF value.kind = "seq" THEN filter_list_raw_data_nested(value)
                      ELSE value)])

\* dict equality ignores the order of insertion: the value with every mapping
\* turned into the function from its keys
RECURSIVE Canon(_)
Canon(value) ==
    CASE value.kind = "map" ->
            [kind |-> "map",
             m |-> [key \in KeysOf(value.m) |-> Canon(ValueAt(value.m, key))]]
      [] value.kind = "seq" ->
            [kind |-> "seq", s |-> [j \in 1..Len(value.s) |-> Canon(value.s[j])]]
      [] OTHER -> value

\* ------------------------------------------------------------ after the loop
\* missing_required = [comp for comp in required_components if comp not in successful_components]
CheckRequired ==
    /\ pc = "loop"
    /\ i > NumComponents
    /\ LET missing_required ==
               { c \in mandatory_components : c \notin Range(successful_components) }
       IN  IF missing_required # {}
           THEN pc' = "raised" /\ error' = [kind |-> "missing_required", names |-> missing_required]
           ELSE pc' = "consolidate" /\ error' = error
    /\ UNCHANGED << hook_failures_left, data, i, results, successful_components,
                    failed_components, component_data, pending, final_analysis,
                    quality_validation, clean_analysis, invoked, seen, recovery_calls, search, response >>

Consolidate ==
    /\ pc = "consolidate"
    /\ final_analysis' = consolidate_final_analysis(data, results, successful_components,
                                                    failed_components)
    /\ pc' = "validate"
    /\ UNCHANGED << hook_failures_left, data, i, results, successful_components,
                    failed_components, component_data, pending, quality_validation,
                    clean_analysis, error, invoked, seen, recovery_calls, search, response >>

\* quality_validation = self._validate_final_quality(final_analysis), then the
\* enhancement pass when the score is under 95
ValidateQuality ==
    /\ pc = "validate"
    /\ quality_validation' = validate_final_quality(final_analysis)
    /\ final_analysis' =
         IF quality_validation'.score3 < 285
         THEN enhance_analysis_quality(final_analysis)
         ELSE final_analysis
    /\ pc' = "filter"
    /\ UNCHANGED << hook_failures_left, data, i, results, successful_components,
                    failed_components, component_data, pending, clean_analysis,
                    error, invoked, seen, recovery_calls, search, response >>

Metadata ==
    [kind |-> "dict",
     successful_components |-> successful_components,
     failed_components |-> failed_components,
     success_rate |-> SuccessRate(successful_components),
     quality_score3 |-> quality_validation.score3,
     quality_guaranteed |-> (quality_validation.score3 >= 285)]

\* redaction, metadata, salvar_etapa("analise_final_limpa", ...) and return
FilterAndReturn ==
    /\ pc = "filter"
    /\ \E hook_raises \in HookOutcomes :
         IF hook_raises
         THEN /\ pc' = "raised"
              /\ error' = HookError
              /\ clean_analysis' = clean_analysis
              /\ hook_failures_left' = hook_failures_left - 1
         ELSE /\ pc' = "returned"
              /\ error' = error
              /\ clean_analysis' =
                    Merge(filter_raw_data_from_report(final_analysis),
                          [k \in { "metadata" } |-> Metadata])
              /\ hook_failures_left' = hook_failures_left
    /\ UNCHANGED << data, i, results, successful_components,
                    failed_components, component_data, pending, final_analysis,
                    quality_validation, invoked, seen, recovery_calls, search, response >>

Next ==
    \/ StartPipeline
    \/ InvokeComponent
    \/ ComponentSucceeded
    \/ ComponentRejected
    \/ ComponentRaised
    \/ CheckRequired
    \/ Consolidate
    \/ ValidateQuality
    \/ FilterAndReturn

Spec == Init /\ [][Next]_vars

SpecHooks == InitHooks /\ [][Next]_vars

\* ------------------------------------------- redaction as a pure function
\* The reports _filter_raw_data_from_report is applied to: a structural key
\* and one section, the section a nested value of up to three levels.
NestedKeys == { "raw_content", "content", "titulo", "RAW_DATA", "raw_content_length" }

\* two entries whose keys meet after redaction, in both orders, and a pair
\* that does not
KeyPairs ==
    { << "raw_content", "raw_content_length" >>,
      << "raw_content_length", "raw_content" >>,
      << "titulo", "content" >> }

Leaves == { Str(RawLen, RawLen, FALSE), IntV(RawLen), IntV(RawLen + 1) }

OneKey(V) == { MapV(<< Entry(key, x) >>) : key \in NestedKeys, x \in V }

TwoKey(V) ==
    { MapV(<< Entry(kp[1], x), Entry(kp[2], y) >>) : kp \in KeyPairs, x \in V, y \in V }

Lists(V) == { SeqV(<< >>) } \cup { SeqV(<< x >>) : x \in V }

Level1 == Leaves \cup OneKey(Leaves) \cup TwoKey(Leaves) \cup Lists(Leaves)
Level2 == Level1 \cup OneKey(Level1) \cup Lists(Level1)
Level3 == Level2 \cup OneKey(Level2) \cup Lists(Level2)

StructuralValues ==
    { MapV(<< Entry("raw_content", Str(RawLen, RawLen, FALSE)) >>),
      MapV(<< Entry("segmento", Str(RawLen, RawLen, FALSE)) >>) }

SectionKeys == { "predicoes_futuro_completas", "raw_content" }

Reports ==
    { MapV(<< Entry(sk, pd), Entry(key, x) >>) :
        sk \in structural_keys, pd \in StructuralValues,
        key \in SectionKeys, x \in Level3 }

InitRedact ==
    /\ pc = "report"
    /\ final_analysis \in Reports
    /\ clean_analysis = EmptyMap
    /\ hook_failures_left = 0
    /\ data = EmptyMap
    /\ i = 1
    /\ results = EmptyMap
    /\ successful_components = << >>
    /\ failed_components = << >>
    /\ component_data = EmptyMap
    /\ pending = NoneV
    /\ quality_validation = NoneV
    /\ error = NoError
    /\ invoked = << >>
    /\ seen = EmptyMap
    /\ recovery_calls = << >>
    /\ search = NoSearch
    /\ response = NoResponse

\* clean_analysis = self._filter_raw_data_from_report(final_analysis)
FilterReport ==
    /\ pc = "report"
    /\ clean_analysis' = filter_raw_data_from_report_nested(final_analysis)
    /\ pc' = "filtered"
    /\ UNCHANGED << hook_failures_left, data, i, results, successful_components,
                    failed_components, component_data, pending, final_analysis,
                    quality_validation, error, invoked, seen, recovery_calls, search, response >>

\* the function applied to its own output
FilterReportAgain ==
    /\ pc = "filtered"
    /\ final_analysis' = clean_analysis
    /\ clean_analysis' = filter_raw_data_from_report_nested(clean_analysis)
    /\ pc' = "filtered_again"
    /\ UNCHANGED << hook_failures_left, data, i, results, successful_components,
                    failed_components, component_data, pending,
                    quality_validation, error, invoked, seen, recovery_calls, search, response >>

NextRedact == FilterReport \/ FilterReportAgain

SpecRedact == InitRedact /\ [][NextRedact]_vars

\* ------------------------------------------------ the authenticity rule
\* A text is given as a run of MaxPadLen or fewer filler characters followed
\* by at most two segments; lower() is taken segment by segment.
MaxPadLen == 30

MinInsightLen == 30

InsightSegments ==
    { "Plano customizado para", "BASEADO EM dados", "específico para",
      "Exemplo de", "simulado", "GENÉRICO", "n/a", "não informado",
      "Não Informado", "pesquisa com 40 clientes" }

\* str.lower() on a segment
lower_segment(segment) ==
    CASE segment = "Plano customizado para" -> "plano customizado para"
      [] segment = "BASEADO EM dados" -> "baseado em dados"
      [] segment = "Exemplo de" -> "exemplo de"
      [] segment = "GENÉRICO" -> "genérico"
      [] segment = "Não Informado" -> "não informado"
      [] OTHER -> segment

RECURSIVE Pad(_)
Pad(n) == IF n = 0 THEN "" ELSE "x" \o Pad(n - 1)

RECURSIVE Concat(_)
Concat(parts) == IF parts = << >> THEN "" ELSE Head(parts) \o Concat(Tail(parts))

TextOf(text) == Pad(text.pad) \o Concat(text.parts)

\* insight.lower()
insight_lower(text) ==
    Pad(text.pad) \o Concat([j \in 1..Len(text.parts) |-> lower_segment(text.parts[j])])

\* phrase in text
Contains(text, phrase) ==
    \E k \in 1..(Len(text) - Len(phrase) + 1) :
        SubSeq(text, k, k + Len(phrase) - 1) = phrase

simulation_indicators ==
    { "customizado para", "baseado em", "específico para",
      "exemplo de", "simulado", "genérico", "n/a" }

forbidden_phrases ==
    { "customizado para", "baseado em", "específico para", "n/a",
      "não informado", "exemplo de", "simulado", "genérico" }

is_simulated_insight(text) ==
    IF Len(TextOf(text)) = 0 \/ Len(TextOf(text)) < MinInsightLen
    THEN TRUE
    ELSE \E indicator \in simulation_indicators :
            Contains(insight_lower(text), indicator)

Texts ==
    { [pad |-> n, parts |-> parts] :
        n \in 0..MaxPadLen,
        parts \in { << >> } \cup { << a >> : a \in InsightSegments }
                  \cup { << a, b >> : a \in InsightSegments, b \in InsightSegments } }

InitInsight ==
    /\ pc = "insight"
    /\ data \in Texts
    /\ pending = NoneV
    /\ final_analysis = EmptyMap
    /\ clean_analysis = EmptyMap
    /\ hook_failures_left = 0
    /\ i = 1
    /\ results = EmptyMap
    /\ successful_components = << >>
    /\ failed_components = << >>
    /\ component_data = EmptyMap
    /\ quality_validation = NoneV
    /\ error = NoError
    /\ invoked = << >>
    /\ seen = EmptyMap
    /\ recovery_calls = << >>
    /\ search = NoSearch
    /\ response = NoResponse

\* self._is_simulated_insight(insight)
JudgeInsight ==
    /\ pc = "insight"
    /\ pending' = [kind |-> "bool", value |-> is_simulated_insight(data)]
    /\ pc' = "judged"
    /\ UNCHANGED << hook_failures_left, data, i, results, successful_components,
                    failed_components, component_data, final_analysis,
                    quality_validation, clean_analysis, error, invoked, seen,
                    recovery_calls, search, response >>

NextInsight == JudgeInsight

SpecInsight == InitInsight /\ [][NextInsight]_vars

\* --------------------------------------------- quality scoring on its own
\* _validate_final_quality, _enhance_analysis_quality and the metadata applied
\* to consolidated analyses whose avatar, insight count and source count are
\* drawn around the thresholds of the score.
QualityAvatars ==
    { [GoodAvatar EXCEPT !.perfil_demografico = p,
                         !.dores_viscerais = [n |-> dn, short |-> sh, sim |-> FALSE],
                         !.desejos_secretos = dj,
                         !.objecoes_reais = ob] :
        p \in { 3, 4 }, dn \in { 4, 5 }, sh \in BOOLEAN, dj \in { 4, 5 }, ob \in { 2, 3 } }

QualityResults(avatar, n, fontes) ==
    [name \in StageNames |->
        CASE name = "projeto_dados" ->
                [kind |-> "dict", segmento |-> Str(MaxSegLen, MaxSegLen, FALSE),
                 validado |-> TRUE]
          [] name = "pesquisa_web_massiva" ->
                [kind |-> "dict", total_fontes |-> fontes,
                 resultados_consolidados |-> TRUE, validado |-> TRUE]
          [] name = "analise_ia_avancada" ->
                [generate_basic_ai_analysis(EmptyDict) EXCEPT !.avatar_ultra_detalhado = avatar]
          [] name = "avatar_ultra_detalhado" -> avatar
          [] name = "insights_exclusivos" ->
                [kind |-> "list", n |-> n, origin |-> "final", dup |-> FALSE]
          [] OTHER -> [kind |-> "dict", fallback_mode |-> FALSE]]

InitQuality ==
    /\ pc = "validate"
    /\ data \in HookInputs
    /\ \E avatar \in QualityAvatars, n \in (MinInsights - 5)..(MinInsights + 1),
          fontes \in 1..MaxFontes :
         /\ results = QualityResults(avatar, n, fontes)
         /\ final_analysis = consolidate_final_analysis(data, results, components, << >>)
    /\ successful_components = components
    /\ failed_components = << >>
    /\ invoked = components
    /\ i = NumComponents + 1
    /\ hook_failures_left = 0
    /\ component_data = EmptyMap
    /\ pending = NoneV
    /\ quality_validation = NoneV
    /\ clean_analysis = EmptyMap
    /\ error = NoError
    /\ seen = EmptyMap
    /\ recovery_calls = << >>
    /\ search = NoSearch
    /\ response = NoResponse

NextQuality == ValidateQuality \/ FilterAndReturn

SpecQuality == InitQuality /\ [][NextQuality]_vars

\* ------------------------------------------- stage validation on its own
\* The loop body's validity test applied to results drawn around the
\* stage-specific minimums.
StageResults(name) ==
    CASE name = "drivers_mentais_customizados" ->
            { [kind |-> "dict", drivers_customizados |-> n, complete |-> c,
               historia |-> h, fallback_mode |-> fb] :
                n \in 2..4, c \in BOOLEAN,
                h \in { MinHistoriaLen - 1, MinHistoriaLen }, fb \in BOOLEAN }
            \cup { [kind |-> "dict", fallback_mode |-> FALSE] }
      [] name = "insights_exclusivos" ->
            { [kind |-> "list", n |-> n, origin |-> "final", dup |-> FALSE] : n \in 9..11 }
            \cup { [kind |-> "dict", n |-> 12], EmptyList }
      [] name = "projeto_dados" ->
            { [kind |-> "dict", segmento |-> seg, validado |-> TRUE] : seg \in SegmentoChoices }
            \cup { [kind |-> "dict", validado |-> TRUE] }
      [] name = "pesquisa_web_massiva" ->
            { [kind |-> "dict", total_fontes |-> f, validado |-> TRUE] : f \in 0..MaxFontes }
            \cup { [kind |-> "dict", validado |-> TRUE], EmptyDict }
      [] OTHER ->
            { [kind |-> "dict", fallback_mode |-> fb] : fb \in BOOLEAN }
            \cup { [kind |-> "list", n |-> 1], EmptyDict, EmptyList, NoneV }

InitValidate ==
    /\ pc = "called"
    /\ data \in HookInputs
    /\ i \in { k \in 1..NumComponents : components[k] # "avatar_ultra_detalhado" }
    /\ pending \in { Return(value) : value \in StageResults(components[i]) }
    /\ component_data = data
    /\ results = EmptyMap
    /\ successful_components = << >>
    /\ failed_components = << >>
    /\ invoked = << components[i] >>
    /\ hook_failures_left = 0
    /\ final_analysis = EmptyMap
    /\ quality_validation = NoneV
    /\ clean_analysis = EmptyMap
    /\ error = NoError
    /\ seen = EmptyMap
    /\ recovery_calls = << >>
    /\ search = NoSearch
    /\ response = NoResponse

NextValidate == ComponentSucceeded \/ ComponentRejected

SpecValidate == InitValidate /\ [][NextValidate]_vars

\* -------------------------------------- the web-search stage, call by call
\* _execute_ultra_robust_search one collaborator call at a time.  A query is
\* its position in the generated list; an accepted result set is its
\* successful_extractions.

\* for query in queries[:5]
MaxSearchQueries == 5

\* variant: every generated query is searched
top_queries_uncapped(queries) == queries

\* queries[:5]
top_queries(queries) ==
    SubSeq(queries, 1,
           IF Len(queries) < MaxSearchQueries THEN Len(queries) ELSE MaxSearchQueries)

\* five queries on the segment, three more when the audience is given, the
\* first twelve returned
generate_enhanced_queries(project_data) ==
    LET n == IF Truthy(Get(project_data, "publico", NoneV)) THEN 8 ELSE 5
    IN  [k \in 1..(IF n > 12 THEN 12 ELSE n) |-> k]

\* execute_comprehensive_search raises, or returns a result set that meets
\* the quality requirements or does not
PrimaryAnswers ==
    { [kind |-> "raise", meets |-> FALSE, extractions |-> 0],
      [kind |-> "dict", meets |-> FALSE, extractions |-> 0] }
    \cup { [kind |-> "dict", meets |-> TRUE, extractions |-> e] : e \in 0..MaxFontes }

\* search_with_fallback: the number of results (0: none, -1: it raised)
BasicAnswers == -1..MaxFontes

RECURSIVE SumOf(_)
SumOf(s) == IF s = << >> THEN 0 ELSE s[1] + SumOf(Tail(s))

\* the data the stage is given: project data as prepared, with or without
\* an audience
SearchData ==
    { [k \in { "projeto_dados" } |-> pd] :
        pd \in { [kind |-> "dict", segmento |-> Str(MinSegmentLen, MinSegmentLen, FALSE),
                  validado |-> TRUE],
                 [kind |-> "dict", segmento |-> Str(MinSegmentLen, MinSegmentLen, FALSE),
                  publico |-> Str(1, 1, FALSE), validado |-> TRUE] } }

InitSearch ==
    /\ pc = "search"
    /\ component_data \in SearchData
    /\ pending = NoneV
    /\ search = NoSearch
    /\ response = NoResponse
    /\ hook_failures_left = 0
    /\ data = EmptyMap
    /\ i = 2
    /\ results = EmptyMap
    /\ successful_components = << >>
    /\ failed_components = << >>
    /\ final_analysis = NoneV
    /\ quality_validation = NoneV
    /\ clean_analysis = EmptyMap
    /\ error = NoError
    /\ invoked = << >>
    /\ seen = EmptyMap
    /\ recovery_calls = << >>

\* project_data = data.get('projeto_dados', {}); queries = ...
StartSearch ==
    /\ pc = "search"
    /\ LET project_data == Get(component_data, "projeto_dados", EmptyDict)
       IN  IF ~Truthy(project_data)
           THEN /\ pending' = Raise("PESQUISA_WEB_MASSIVA")
                /\ pc' = "search_done"
                /\ search' = search
           ELSE /\ search' = [queries |-> generate_enhanced_queries(project_data),
                              q |-> 1, search_results |-> << >>, calls |-> << >>]
                /\ pc' = "search_loop"
                /\ pending' = pending
    /\ UNCHANGED << hook_failures_left, data, i, results, successful_components,
                    failed_components, component_data, final_analysis,
                    quality_validation, clean_analysis, error, invoked, seen,
                    recovery_calls, response >>

\* one turn of the loop over queries[:5]
PrimarySearch ==
    /\ pc = "search_loop"
    /\ search.q <= Len(top_queries(search.queries))
    /\ \E answer \in PrimaryAnswers :
         LET met == answer.kind = "dict" /\ answer.meets
         IN  search' =
               [search EXCEPT
                  !.q = @ + 1,
                  !.search_results = IF met THEN Append(@, answer.extractions) ELSE @,
                  !.calls = Append(@, [to |-> "primary",
                                       query |-> search.queries[search.q],
                                       met |-> met])]
    /\ UNCHANGED << pc, hook_failures_left, data, i, results, successful_components,
                    failed_components, component_data, pending, final_analysis,
                    quality_validation, clean_analysis, error, invoked, seen,
                    recovery_calls, response >>

\* after the loop: the basic search when no result set was accepted, then
\* consolidation and return
FinishSearch ==
    /\ pc = "search_loop"
    /\ search.q > Len(top_queries(search.queries))
    /\ IF search.search_results = << >>
       THEN \E basic \in BasicAnswers :
              /\ search' =
                   [search EXCEPT
                      !.search_results = IF basic > 0 THEN << basic >> ELSE << >>,
                      !.calls = Append(@, [to |-> "secondary", query |-> 0,
                                           met |-> basic > 0])]
              /\ pending' = execute_ultra_robust_search(
                                component_data,
                                [primary_met |-> FALSE, extractions |-> 0, basic |-> basic])
       ELSE /\ search' = search
            /\ pending' = execute_ultra_robust_search(
                              component_data,
                              [primary_met |-> TRUE,
                               extractions |-> SumOf(search.search_results),
                               basic |-> 0])
    /\ pc' = "search_done"
    /\ UNCHANGED << hook_failures_left, data, i, results, successful_components,
                    failed_components, component_data, final_analysis,
                    quality_validation, clean_analysis, error, invoked, seen,
                    recovery_calls, response >>

NextSearch == StartSearch \/ PrimarySearch \/ FinishSearch

SpecSearch == InitSearch /\ [][NextSearch]_vars

\* ------------------------------------------ processing the AI response
\* _process_and_validate_ai_response and _clean_json_response on texts,
\* character by character.  json.loads is modelled on documents of objects,
\* arrays, strings without escapes and unsigned integers.
TextV(t) == [kind |-> "text", t |-> t]

\* text[p - 1] in Python, "" outside the text
Char(text, p) == IF p >= 1 /\ p <= Len(text) THEN SubSeq(text, p, p) ELSE ""

\* text[from - 1 : to] in Python
Slice(text, from, to) ==
    IF from >= 1 /\ to <= Len(text) /\ from <= to THEN SubSeq(text, from, to) ELSE ""

Whitespace == { " ", "\n", "\r", "\t" }

RECURSIVE skip_whitespace(_, _)
skip_whitespace(text, p) ==
    IF Char(text, p) \in Whitespace THEN skip_whitespace(text, p + 1) ELSE p

RECURSIVE skip_whitespace_back(_, _)
skip_whitespace_back(text, p) ==
    IF Char(text, p) \in Whitespace THEN skip_whitespace_back(text, p - 1) ELSE p

\* str.strip()
strip_text(text) ==
    Slice(text, skip_whitespace(text, 1), skip_whitespace_back(text, Len(text)))

\* str.find and str.rfind as positions from 1, 0 when the phrase is absent
find(text, phrase) ==
    IF Contains(text, phrase)
    THEN CHOOSE k \in 1..Len(text) :
            /\ Slice(text, k, k + Len(phrase) - 1) = phrase
            /\ \A j \in 1..(k - 1) : Slice(text, j, j + Len(phrase) - 1) # phrase
    ELSE 0

rfind(text, phrase) ==
    IF Contains(text, phrase)
    THEN CHOOSE k \in 1..Len(text) :
            /\ Slice(text, k, k + Len(phrase) - 1) = phrase
            /\ \A j \in (k + 1)..Len(text) : Slice(text, j, j + Len(phrase) - 1) # phrase
    ELSE 0

Digits == << "0", "1", "2", "3", "4", "5", "6", "7", "8", "9" >>

IsDigit(c) == \E k \in 1..10 : Digits[k] = c

DigitValue(c) == (CHOOSE k \in 1..10 : Digits[k] = c) - 1

\* the outcome of a parsing step: the value and the position after it
NoParse == [ok |-> FALSE, pos |-> 0, val |-> NoneV]
Parsed(val, pos) == [ok |-> TRUE, pos |-> pos, val |-> val]

\* the closing quote of a string from p on, 0 when the line or the text ends
\* first
RECURSIVE closing_quote(_, _)
closing_quote(text, p) ==
    IF p > Len(text) \/ Char(text, p) \in { "\n", "\r" } THEN 0
    ELSE IF Char(text, p) = "\"" THEN p
    ELSE closing_quote(text, p + 1)

parse_string(text, p) ==
    LET q == closing_quote(text, p + 1)
    IN  IF q = 0 THEN NoParse ELSE Parsed(TextV(Slice(text, p + 1, q - 1)), q + 1)

RECURSIVE parse_digits(_, _, _)
parse_digits(text, p, n) ==
    IF IsDigit(Char(text, p))
    THEN parse_digits(text, p + 1, n * 10 + DigitValue(Char(text, p)))
    ELSE Parsed(IntV(n), p)

RECURSIVE parse_value(_, _)
RECURSIVE parse_members(_, _, _)
RECURSIVE parse_elements(_, _, _)

\* the members of an object from the key at p on
parse_members(text, p, members) ==
    IF Char(text, p) # "\"" THEN NoParse
    ELSE LET key == parse_string(text, p)
             colon == skip_whitespace(text, key.pos)
             value == parse_value(text, skip_whitespace(text, colon + 1))
             after == skip_whitespace(text, value.pos)
         IN  IF ~key.ok \/ Char(text, colon) # ":" THEN NoParse
             ELSE IF ~value.ok THEN NoParse
             ELSE IF Char(text, after) = "}"
             THEN Parsed(MapV(Put(members, key.val.t, value.val)), after + 1)
             ELSE IF Char(text, after) = ","
             THEN parse_members(text, skip_whitespace(text, after + 1),
                                Put(members, key.val.t, value.val))
             ELSE NoParse

\* the elements of an array from the value at p on
parse_elements(text, p, elements) ==
    LET value == parse_value(text, p)
        after == skip_whitespace(text, value.pos)
    IN  IF ~value.ok THEN NoParse
        ELSE IF Char(text, after) = "]"
        THEN Parsed(SeqV(Append(elements, value.val)), after + 1)
        ELSE IF Char(text, after) = ","
        THEN parse_elements(text, skip_whitespace(text, after + 1),
                            Append(elements, value.val))
        ELSE NoParse

parse_value(text, p) ==
    LET c == Char(text, p)
        inside == skip_whitespace(text, p + 1)
    IN  IF c = "\"" THEN parse_string(text, p)
        ELSE IF c = "{"
        THEN IF Char(text, inside) = "}" THEN Parsed(MapV(<< >>), inside + 1)
             ELSE parse_members(text, inside, << >>)
        ELSE IF c = "["
        THEN IF Char(text, inside) = "]" THEN Parsed(SeqV(<< >>), inside + 1)
             ELSE parse_elements(text, inside, << >>)
        ELSE IF IsDigit(c) THEN parse_digits(text, p, 0)
        ELSE NoParse

\* json.loads: one value, whitespace around it, nothing after
json_loads(text) ==
    LET document == parse_value(text, skip_whitespace(text, 1))
    IN  IF document.ok /\ skip_whitespace(text, document.pos) > Len(text)
        THEN document ELSE NoParse

\* json_text.replace('\n', ' ').replace('\r', '')
replace_line_breaks(json_text) ==
    Concat([j \in 1..Len(json_text) |->
              IF Char(json_text, j) = "\n" THEN " "
              ELSE IF Char(json_text, j) = "\r" THEN ""
              ELSE Char(json_text, j)])

\* where $ matches from p on under re.MULTILINE: before a line feed or at the
\* end of the text
RECURSIVE line_end(_, _)
line_end(text, p) ==
    IF p > Len(text) \/ Char(text, p) = "\n" THEN p ELSE line_end(text, p + 1)

\* re.sub(r'//.*?$', '', json_text, flags=re.MULTILINE) from p on
RECURSIVE remove_comments(_, _)
remove_comments(json_text, p) ==
    IF p > Len(json_text) THEN ""
    ELSE IF Slice(json_text, p, p + 1) = "//"
    THEN remove_comments(json_text, line_end(json_text, p + 2))
    ELSE Char(json_text, p) \o remove_comments(json_text, p + 1)

\* re.sub(r',\s*}', '}', json_text) and re.sub(r',\s*]', ']', json_text) from
\* p on, closer being the bracket
RECURSIVE remove_comma_before(_, _, _)
remove_comma_before(json_text, closer, p) ==
    IF p > Len(json_text) THEN ""
    ELSE IF /\ Char(json_text, p) = ","
            /\ Char(json_text, skip_whitespace(json_text, p + 1)) = closer
    THEN closer \o remove_comma_before(json_text, closer,
                                       skip_whitespace(json_text, p + 1) + 1)
    ELSE Char(json_text, p) \o remove_comma_before(json_text, closer, p + 1)

clean_json_response(json_text) ==
    LET one_line == replace_line_breaks(json_text)
        uncommented == remove_comments(one_line, 1)
        braces == remove_comma_before(uncommented, "}", 1)
    IN  remove_comma_before(braces, "]", 1)

\* the code fence markers, the backquote written as an apostrophe
FenceOpen == "'''json"
FenceClose == "'''"

\* the validation and the simulation markers are logged only
process_and_validate_ai_response(text) ==
    LET stripped == strip_text(text)
        clean_text ==
            IF Contains(stripped, FenceOpen)
            THEN strip_text(Slice(stripped, find(stripped, FenceOpen) + Len(FenceOpen),
                                  rfind(stripped, FenceClose) - 1))
            ELSE stripped
        first == json_loads(clean_text)
        second == json_loads(clean_json_response(clean_text))
    IN  IF first.ok THEN Return(first.val)
        ELSE IF second.ok THEN Return(second.val)
        ELSE Raise("IA_JSON_INVALIDO")

\* The responses: an object of two members written one per line, each member
\* with or without a trailing comma inside its value, the last member with
\* or without a trailing comma, a comment line at any of three places; the
\* same in a code fence; and texts that are no documents.
Members ==
    { [text |-> "\"a\": 1", plain |-> "\"a\": 1"],
      [text |-> "\"l\": [1, 2,]", plain |-> "\"l\": [1, 2]"],
      [text |-> "\"o\": {\"k\": 2,}", plain |-> "\"o\": {\"k\": 2}"],
      [text |-> "\"u\": \"h://x\"", plain |-> "\"u\": \"h://x\""],
      [text |-> "\"s\": \"a,}\"", plain |-> "\"s\": \"a,}\""] }

Comment(present) == IF present THEN "// nota\n" ELSE ""

Document(first, second, comma, c1, c2, c3) ==
    [text |-> "{\n" \o first.text \o ",\n" \o Comment(c1) \o second.text
              \o (IF comma THEN "," ELSE "") \o "\n" \o Comment(c2) \o "}"
              \o (IF c3 THEN "\n// fim" ELSE ""),
     plain |-> "{\n" \o first.plain \o ",\n" \o second.plain \o "\n}",
     repairable |-> TRUE]

Documents ==
    { Document(first, second, comma, c1, c2, c3) :
        first \in Members, second \in Members, comma \in BOOLEAN,
        c1 \in BOOLEAN, c2 \in BOOLEAN, c3 \in BOOLEAN }

Fenced(document) ==
    [document EXCEPT !.text = "Segue:\n" \o FenceOpen \o "\n" \o @ \o "\n" \o FenceClose \o "\n"]

Unparsable ==
    { [text |-> t, plain |-> "", repairable |-> FALSE] :
        t \in { "sem dados", "{\"a\": }", "{\"a\" 1}", "[1, 2" } }

Responses ==
    Documents
    \cup { Fenced(document) : document \in { d \in Documents : d.text = d.plain } }
    \cup { Fenced(Document(m, m, TRUE, FALSE, FALSE, FALSE)) : m \in Members }
    \cup Unparsable

\* the data the AI stage is given
AnalysisData ==
    [k \in { "projeto_dados", "pesquisa_web_massiva" } |->
        IF k = "projeto_dados"
        THEN [kind |-> "dict", segmento |-> Str(MinSegmentLen, MinSegmentLen, FALSE),
              validado |-> TRUE]
        ELSE [kind |-> "dict", total_fontes |-> MinPesquisaFontes,
              resultados_consolidados |-> TRUE, validado |-> TRUE]]

InitResponse ==
    /\ pc = "response"
    /\ response \in Responses
    /\ component_data = AnalysisData
    /\ pending = NoneV
    /\ search = NoSearch
    /\ hook_failures_left = 0
    /\ data = EmptyMap
    /\ i = 3
    /\ results = EmptyMap
    /\ successful_components = << >>
    /\ failed_components = << >>
    /\ final_analysis = NoneV
    /\ quality_validation = NoneV
    /\ clean_analysis = EmptyMap
    /\ error = NoError
    /\ invoked = << >>
    /\ seen = EmptyMap
    /\ recovery_calls = << >>

\* analysis = self._process_and_validate_ai_response(response, project_data)
ProcessResponse ==
    /\ pc = "response"
    /\ pending' = process_and_validate_ai_response(response.text)
    /\ pc' = "processed"
    /\ UNCHANGED << hook_failures_left, data, i, results, successful_components,
                    failed_components, component_data, final_analysis,
                    quality_validation, clean_analysis, error, invoked, seen,
                    recovery_calls, search, response >>

\* the exception leaves the stage through its handler
ResponseRejected ==
    /\ pc = "processed"
    /\ pending.raised
    /\ pending' = execute_advanced_ai_analysis(component_data, [kind |-> "unparsable"])
    /\ pc' = "stage_raised"
    /\ UNCHANGED << hook_failures_left, data, i, results, successful_components,
                    failed_components, component_data, final_analysis,
                    quality_validation, clean_analysis, error, invoked, seen,
                    recovery_calls, search, response >>

\* the stage goes on to the required sections with the parsed mapping
ResponseParsed ==
    /\ pc = "processed"
    /\ ~pending.raised
    /\ pc' = "sections"
    /\ UNCHANGED << hook_failures_left, data, i, results, successful_components,
                    failed_components, component_data, pending, final_analysis,
                    quality_validation, clean_analysis, error, invoked, seen,
                    recovery_calls, search, response >>

NextResponse == ProcessResponse \/ ResponseRejected \/ ResponseParsed

SpecResponse == InitResponse /\ [][NextResponse]_vars

\* ================================================================== claims
Last(s) == s[Len(s)]

Finished == pc \in { "returned", "raised" }

SegmentoGiven == "segmento" \in DOMAIN data /\ data["segmento"].raw >= MinSegmentLen

IsFinalAnalysis(a) ==
    /\ { "projeto_dados", "pipeline_status", "status", "metadata" } \subseteq DOMAIN a
    /\ a["status"].value \in { "COMPLETO", "PARCIAL_VALIDO", "MINIMO_PRESERVADO" }

\* every outcome of a stage call is resolved by one of the three branches of
\* the loop body, and the exhausted loop goes on to the check of the
\* mandatory stages
OutcomeResolved ==
    /\ (pc = "called" =>
            ENABLED (ComponentSucceeded \/ ComponentRejected \/ ComponentRaised))
    /\ (pc = "loop" /\ i > NumComponents => ENABLED CheckRequired)

\* C1: for an input whose segment has at least 3 characters, whatever the
\* stages do (valid result, raise, empty result, rejected result), the call
\* is resolved, and the run ends in one of two ways only: it returns a final
\* analysis, or it raises an error that names a mandatory stage.
C1_ReturnsOrNamesMandatory ==
    SegmentoGiven =>
        /\ OutcomeResolved
        /\ (pc = "returned" => IsFinalAnalysis(clean_analysis) /\ error.kind = "none")
        /\ (pc = "raised" =>
                /\ error.names # {}
                /\ error.names \subseteq mandatory_components
                /\ clean_analysis = EmptyMap)

C1_Witness ==
    /\ SegmentoGiven
    /\ pc = "returned"
    /\ Len(failed_components) >= 3
    /\ IsFinalAnalysis(clean_analysis)

\* the current component did not deliver an accepted result
ComponentFailed == pc = "called" /\ (pending.raised \/ ~ResultAccepted)

NonMandatory == StageNames \ mandatory_components

\* C2: a failing non-mandatory stage does not abort the run: its name is
\* appended to the failed list, nothing is stored under its name, the loop
\* goes on to the next stage, and a run that went past it invokes every stage.
C2_Step ==
    (ComponentFailed /\ components[i] \in NonMandatory) =>
        /\ pc' = "loop"
        /\ i' = i + 1
        /\ failed_components' = Append(failed_components, components[i])
        /\ successful_components' = successful_components
        /\ components[i] \notin DOMAIN results'
        /\ results' = results

C2_NonMandatoryFailureContinues ==
    /\ [][C2_Step]_vars
    /\ [](\A k \in 1..Len(failed_components) :
            (failed_components[k] \in NonMandatory /\ Finished /\ error.kind = "none")
                => invoked = components)

C2_Witness ==
    /\ pc = "returned"
    /\ "avatar_ultra_detalhado" \in Range(failed_components)
    /\ "avatar_ultra_detalhado" \notin DOMAIN results
    /\ invoked = components

HasRecoveryMode(v) == v.kind = "dict" /\ "recovery_mode" \in DOMAIN v /\ v.recovery_mode

\* C3: when a mandatory stage fails and recovery gives a value, the value is
\* stored under the stage name, the run goes on with the next stage, and the
\* returned analysis lists the stage as executed and counts it in the rate.
C3_Step ==
    (/\ ComponentFailed
     /\ components[i] \in mandatory_components
     /\ Truthy(attempt_component_recovery(components[i], component_data))) =>
        /\ pc' = "loop"
        /\ i' = i + 1
        /\ components[i] \in DOMAIN results'
        /\ HasRecoveryMode(results'[components[i]])
        /\ components[i] \in Range(successful_components')

C3_RecoveredCountsAsSuccess ==
    /\ [][C3_Step]_vars
    /\ [](pc = "returned" =>
            \A k \in 1..Len(recovery_calls) :
                LET name == recovery_calls[k]
                    status == clean_analysis["pipeline_status"]
                    executed == status.componentes_executados
                IN  /\ name \in Range(executed)
                    /\ name \in DOMAIN clean_analysis
                    /\ status.taxa_sucesso.num = 100 * Len(executed)
                    /\ clean_analysis["metadata"].success_rate.num = 100 * Len(executed))

C3_Witness ==
    /\ pc = "returned"
    /\ "pesquisa_web_massiva" \in Range(recovery_calls)
    /\ HasRecoveryMode(clean_analysis["pesquisa_web_massiva"])
    /\ "pesquisa_web_massiva" \in Range(clean_analysis["pipeline_status"].componentes_executados)

\* C4: when a mandatory stage fails and recovery gives nothing, the run ends
\* with an error naming that stage: no further stage is invoked, nothing is
\* consolidated or redacted, nothing is returned.
C4_Step ==
    (/\ ComponentFailed
     /\ components[i] \in mandatory_components
     /\ ~Truthy(attempt_component_recovery(components[i], component_data))) =>
        /\ pc' = "raised"
        /\ error'.kind = "mandatory"
        /\ error'.names = { components[i] }
        /\ invoked' = invoked

C4_UnrecoveredMandatoryAborts ==
    /\ [][C4_Step]_vars
    /\ [][pc = "raised" => pc' = "raised" /\ invoked' = invoked]_vars
    /\ [](pc = "raised" =>
            /\ ~ENABLED InvokeComponent
            /\ ~ENABLED Consolidate
            /\ ~ENABLED FilterAndReturn
            /\ final_analysis = EmptyMap
            /\ clean_analysis = EmptyMap)

C4_Witness ==
    /\ pc = "raised"
    /\ error = MandatoryError("projeto_dados")
    /\ invoked = << "projeto_dados" >>
    /\ recovery_calls # << >>

\* C5: the stage functions are invoked in the declared order, each at most
\* once, and a stage is invoked only when every stage before it is recorded
\* as successful or as failed.
C5_DeclaredOrder ==
    /\ Len(invoked) <= NumComponents
    /\ invoked = SubSeq(components, 1, Len(invoked))
    /\ \A k \in 1..Len(invoked) :
         (k < Len(invoked) \/ pc # "called") =>
            invoked[k] \in Range(successful_components) \cup Range(failed_components)
    /\ (pc = "called" =>
            Last(invoked) \notin Range(successful_components) \cup Range(failed_components))

C5_Witness ==
    /\ pc = "called"
    /\ invoked = components
    /\ Len(failed_components) >= 2

\* the stages before name that are in the successful list
SucceededBefore(name) ==
    { c \in Range(successful_components) : IndexOf(c) < IndexOf(name) }

\* v is the stored value w up to the two sections of the AI analysis that the
\* avatar and positioning stages complete in place
SameObject(v, w) ==
    IF v.kind = "dict" /\ "posicionamento_estrategico" \in DOMAIN v /\ DOMAIN v = DOMAIN w
    THEN [v EXCEPT !.avatar_ultra_detalhado = w.avatar_ultra_detalhado,
                   !.posicionamento_estrategico = w.posicionamento_estrategico] = w
    ELSE v = w

\* C6: the data passed to a stage is the input overlaid with exactly the
\* results of the stages that succeeded or were recovered before it: their
\* keys shadow input keys of the same name, every other key has the input's
\* value, and no result of the stage itself or of a later stage is in it.
C6_ComponentDataIsOverlay ==
    \A name \in DOMAIN seen :
        LET before == SucceededBefore(name)
        IN  /\ DOMAIN seen[name] = DOMAIN data \cup before
            /\ \A c \in before : SameObject(seen[name][c], results[c])
            /\ \A key \in DOMAIN data \ before : seen[name][key] = data[key]
            /\ \A c \in StageNames :
                 (IndexOf(c) >= IndexOf(name) /\ c \in DOMAIN seen[name]) =>
                    (c \in DOMAIN data /\ seen[name][c] = data[c])

C6_Witness ==
    /\ "avatar_ultra_detalhado" \in DOMAIN data
    /\ "pre_pitch_invisivel" \in DOMAIN seen
    /\ "avatar_ultra_detalhado" \in DOMAIN results
    /\ seen["pre_pitch_invisivel"]["avatar_ultra_detalhado"] # data["avatar_ultra_detalhado"]
    /\ seen["avatar_ultra_detalhado"]["avatar_ultra_detalhado"] = data["avatar_ultra_detalhado"]

\* C7: at every stage boundary the keys of the accumulated results are the
\* names in the successful list, and they are declared stage names.
C7_ResultsKeysAreSuccessful ==
    pc \in { "loop", "consolidate" } =>
        /\ DOMAIN results = Range(successful_components)
        /\ DOMAIN results \subseteq StageNames

C7_Witness ==
    /\ pc = "loop"
    /\ i > NumComponents
    /\ Range(recovery_calls) # {}
    /\ Len(failed_components) >= 3
    /\ DOMAIN results # StageNames

\* C8: every value stored in the accumulated results under a stage name,
\* a value produced by recovery included, satisfies validate_component_result
\* for that stage name.
C8_StoredResultsAreValid ==
    \A name \in DOMAIN results : validate_component_result(name, results[name])

\* C9: for every stage name, validate_component_result rejects every stored
\* result that carries the marker the recovery generator sets (recovery_mode).
C9_RecoveryMarkerIsRejected ==
    \A name \in StageNames :
        \A k \in DOMAIN results :
            HasRecoveryMode(results[k]) => ~validate_component_result(name, results[k])

\* the value carries recovery_mode or fallback_mode
HasMarker(v) == HasRecoveryMode(v) \/ FallbackFlag(v)

\* the sections of the consolidated analysis that generate_fallback_section filled
FilledByFallback ==
    { c \in Range(consolidation_required) :
        c \notin Range(successful_components) \cap DOMAIN results }

\* C10: every value produced by the recovery generator carries a marker: the
\* stored value of each recovered mandatory stage, and each section of the
\* consolidated analysis that generate_fallback_section filled.
C10_RecoveryValuesAreMarked ==
    /\ \A k \in 1..Len(recovery_calls) :
         recovery_calls[k] \in DOMAIN results => HasMarker(results[recovery_calls[k]])
    /\ pc = "validate" =>
         \A c \in FilledByFallback : HasMarker(final_analysis[c])

\* C11: attempt_component_recovery never raises: in every context of a run and
\* for every stage name it gives None or a non-empty mapping; it gives None
\* for every name outside the mandatory set and when the generator fails
\* (float() of the price raising in generate_basic_project_data).
C11_RecoveryNeverRaises ==
    \A name \in StageNames :
        LET context == Merge(data, results)
            value == attempt_component_recovery(name, context)
        IN  /\ value.kind \in { "none", "dict" }
            /\ (value.kind = "dict" => Truthy(value))
            /\ (name \notin mandatory_components => value = NoneV)
            /\ (name = "projeto_dados" /\ FloatRaises(context) => value = NoneV)
            /\ (name \in mandatory_components /\ ~FloatRaises(context) => Truthy(value))

C11_Witness ==
    /\ recovery_calls = << "projeto_dados" >>
    /\ FloatRaises(Merge(data, results))
    /\ attempt_component_recovery("projeto_dados", Merge(data, results)) = NoneV
    /\ attempt_component_recovery("pesquisa_web_massiva", Merge(data, results)).kind = "dict"

\* C12: in every returned analysis the status is COMPLETO exactly when the
\* success rate is at least 80, PARCIAL_VALIDO exactly when it is at least 60
\* and under 80, MINIMO_PRESERVADO otherwise; that is, COMPLETO with at least
\* 9 names in the successful list and PARCIAL_VALIDO with 7 or 8.
C12_StatusFollowsSuccessRate ==
    pc = "returned" =>
        LET status == clean_analysis["status"].value
            rate == clean_analysis["pipeline_status"].taxa_sucesso
            n == Len(successful_components)
        IN  /\ rate.num = 100 * n /\ rate.den = 11
            /\ (status = "COMPLETO" <=> rate.num >= 80 * rate.den)
            /\ (status = "PARCIAL_VALIDO" <=>
                    (rate.num >= 60 * rate.den /\ rate.num < 80 * rate.den))
            /\ (status = "MINIMO_PRESERVADO" <=> rate.num < 60 * rate.den)
            /\ (status = "COMPLETO" <=> n >= 9)
            /\ (status = "PARCIAL_VALIDO" <=> n \in { 7, 8 })

C12_Witness ==
    /\ pc = "returned"
    /\ Len(successful_components) = 9
    /\ clean_analysis["status"].value = "COMPLETO"

\* the sections consolidation fills when their stage did not succeed
FallbackSections ==
    { "avatar_ultra_detalhado", "posicionamento_estrategico", "insights_exclusivos" }

\* C13: every returned analysis has a non-empty value under each of the six
\* required keys, whichever non-mandatory stages failed; an avatar,
\* positioning or insights section whose stage did not succeed is the value
\* of generate_fallback_section.
C13_RequiredSectionsPresent ==
    /\ pc = "returned" =>
         \A c \in quality_required :
            c \in DOMAIN clean_analysis /\ Truthy(clean_analysis[c])
    /\ pc = "validate" =>
         \A c \in FallbackSections :
            /\ c \in DOMAIN final_analysis
            /\ c \notin Range(successful_components) =>
                 final_analysis[c] =
                    generate_fallback_section(c, final_analysis["projeto_dados"])

C13_Witness ==
    /\ pc = "returned"
    /\ "avatar_ultra_detalhado" \notin Range(successful_components)
    /\ Len(failed_components) >= 4
    /\ Truthy(clean_analysis["avatar_ultra_detalhado"])
    /\ clean_analysis["avatar_ultra_detalhado"].origin = "basic"

\* what the loop body leaves behind when every hook returns
HookFreeOutcome ==
    IF pending.raised
    THEN except_handler(components[i], results, successful_components,
                        failed_components, recovery_calls, FALSE)
    ELSE IF ResultAccepted
    THEN success_branch(components[i], pending.value, results, successful_components,
                        failed_components, recovery_calls, FALSE, FALSE)
    ELSE else_branch(components[i], component_data, results, successful_components,
                     failed_components, recovery_calls, FALSE, FALSE)

C14_Step ==
    pc = "called" =>
        /\ results' = HookFreeOutcome.results
        /\ successful_components' = HookFreeOutcome.successful
        /\ failed_components' = HookFreeOutcome.failed
        /\ error' = HookFreeOutcome.error

\* C14: a persistence hook that raises (at the start, after a successful
\* stage, after a failed stage, at the final save) does not abort the run,
\* and the stage lists and stored values are the ones of a pass whose hooks
\* return.
C14_HookFailureIsHarmless ==
    /\ [](error.kind # "hook")
    /\ [][C14_Step]_vars

\* C15: redaction is idempotent: applied to its own output it gives that
\* output again (mappings compared as Python compares them, whatever the
\* order of insertion).
C15_RedactionIdempotent ==
    pc = "filtered_again" => Canon(clean_analysis) = Canon(final_analysis)

\* a report whose section holds, two levels down, a raw string that the first
\* pass turned into a statistic
C15_Witness ==
    /\ pc = "filtered_again"
    /\ \E j \in 1..Len(final_analysis.m) :
         LET value == final_analysis.m[j].v
         IN  /\ value.kind = "map"
             /\ Len(value.m) = 1
             /\ value.m[1].v.kind = "map"
             /\ "raw_content_length" \in KeysOf(value.m[1].v.m)
             /\ Len(value.m[1].v.m) = 1

\* C16: the report filter copies projeto_dados, pipeline_status and metadata
\* with their values unchanged, denylisted keys inside them included, and
\* removes no top-level key: the output has the top-level keys of the input.
C16_TopLevelKeysKept ==
    pc \in { "filtered", "filtered_again" } =>
        /\ KeysOf(clean_analysis.m) = KeysOf(final_analysis.m)
        /\ Len(clean_analysis.m) = Len(final_analysis.m)
        /\ \A key \in structural_keys \cap KeysOf(final_analysis.m) :
             ValueAt(clean_analysis.m, key) = ValueAt(final_analysis.m, key)

C16_Witness ==
    /\ pc = "filtered"
    /\ "pipeline_status" \in KeysOf(final_analysis.m)
    /\ "raw_content" \in KeysOf(ValueAt(clean_analysis.m, "pipeline_status").m)
    /\ "predicoes_futuro_completas" \in KeysOf(final_analysis.m)
    /\ ValueAt(clean_analysis.m, "predicoes_futuro_completas")
         # ValueAt(final_analysis.m, "predicoes_futuro_completas")

\* C17: when all eleven stages succeeded, so that every stored result met
\* its stage's minimum (an avatar with at least 5 pains and 5 desires, at
\* least 10 insights, at least 3 drivers with narratives of 100 characters),
\* the quality score is at least 95 and the status is COMPLETO.
C17_AllStagesGiveFullScore ==
    ( /\ pc \in { "filter", "returned" }
      /\ Len(successful_components) = NumComponents
      /\ failed_components = << >> ) =>
        /\ quality_validation.score3 >= 285
        /\ final_analysis["status"].value = "COMPLETO"

\* the number of sources the search section of the consolidated result reports
ReportedSources ==
    Get(Get(final_analysis, "pesquisa_web_massiva", EmptyDict), "total_fontes", 0)

\* C18: when the search section of the consolidated result reports fewer than
\* 3 sources, the quality report has the insufficient-sources issue, the score
\* is at most 85 (kept times three: 255), and the run goes on to return its
\* analysis, whose metadata carries that score.
C18_FewSourcesAreReportedNotFatal ==
    /\ (pc = "filter" /\ ReportedSources < MinSources) =>
          /\ quality_validation.insufficient_sources
          /\ quality_validation.score3 <= 255
          /\ error.kind = "none"
          /\ ENABLED FilterAndReturn
    /\ (pc = "returned" /\ ReportedSources < MinSources) =>
          /\ quality_validation.insufficient_sources
          /\ clean_analysis["metadata"].quality_score3 <= 255
          /\ error.kind = "none"

C18_Witness ==
    /\ pc = "returned"
    /\ ReportedSources = 2
    /\ quality_validation.insufficient_sources
    /\ clean_analysis["metadata"].quality_score3 = 255

\* C19: _is_simulated_insight answers true exactly when the text is shorter
\* than 30 characters or its lowercase form contains one of the listed
\* phrases: customized for, based on, specific to, example of, simulated,
\* generic, not applicable (n/a), not informed (não informado).
C19_TemplatedExactlyWhenShortOrListed ==
    pc = "judged" =>
        (pending.value <=>
            \/ Len(TextOf(data)) < MinInsightLen
            \/ \E phrase \in forbidden_phrases : Contains(insight_lower(data), phrase))

\* the avatar stage returned an avatar one of whose first three pains is
\* shorter than 30 characters or contains a listed phrase
TemplatedAvatarReturned ==
    /\ pc = "called"
    /\ components[i] = "avatar_ultra_detalhado"
    /\ ~pending.raised
    /\ Truthy(pending.value)
    /\ first_dores_simulated(pending.value.dores_viscerais)

C20_Step ==
    TemplatedAvatarReturned =>
        /\ pc' = "loop"
        /\ error' = NoError
        /\ failed_components' = Append(failed_components, "avatar_ultra_detalhado")
        /\ successful_components' = successful_components
        /\ "avatar_ultra_detalhado" \notin DOMAIN results'

\* C20: when one of the first three pains of the avatar the avatar stage
\* returned looks templated, the stage is recorded as failed and its value is
\* not stored as a successful result; the run does not abort, and the
\* analysis returned after a failed avatar stage has a non-empty avatar
\* section.
C20_TemplatedAvatarFailsStageOnly ==
    /\ [][C20_Step]_vars
    /\ []((pc = "returned" /\ "avatar_ultra_detalhado" \in Range(failed_components)) =>
            /\ "avatar_ultra_detalhado" \notin Range(successful_components)
            /\ "avatar_ultra_detalhado" \in DOMAIN clean_analysis
            /\ Truthy(clean_analysis["avatar_ultra_detalhado"]))

C20_Witness ==
    /\ pc = "returned"
    /\ "avatar_ultra_detalhado" \in Range(failed_components)
    /\ Truthy(Get(results["analise_ia_avancada"], "avatar_ultra_detalhado", NoneV))
    /\ results["analise_ia_avancada"].avatar_ultra_detalhado.kind = "dict"
    /\ first_dores_simulated(
         results["analise_ia_avancada"].avatar_ultra_detalhado.dores_viscerais)
    /\ results["analise_ia_avancada"].avatar_ultra_detalhado.metadata_avatar
    /\ Truthy(clean_analysis["avatar_ultra_detalhado"])

\* how many times name occurs in the sequence s
Occurrences(s, name) == Cardinality({ k \in 1..Len(s) : s[k] = name })

C21_Step ==
    (pc = "called" /\ components[i] \in mandatory_components
        /\ (pending.raised \/ ~ResultAccepted)) =>
        /\ recovery_calls' = Append(recovery_calls, components[i])
        /\ invoked' = invoked

\* C21: a failure of a mandatory stage, by raising or by an empty or invalid
\* result, whether recovery succeeds or not, is followed by exactly one call
\* of _attempt_component_recovery for that stage; no stage function is
\* invoked twice.
C21_OneRecoveryPerMandatoryFailure ==
    /\ [][C21_Step]_vars
    /\ [](\A name \in StageNames :
            /\ Occurrences(invoked, name) <= 1
            /\ Occurrences(recovery_calls, name) <= 1)

C21_Witness ==
    /\ pc = "returned"
    /\ recovery_calls = << "projeto_dados", "pesquisa_web_massiva", "analise_ia_avancada" >>
    /\ invoked = components
    /\ Len(failed_components) = 3

\* C22: whenever the stage loop has run to completion, the three mandatory
\* stage names are in the successful list, so the check after the loop finds
\* none missing and its fatal error is never raised.
C22_PostLoopCheckNeverFails ==
    /\ (pc = "loop" /\ i > NumComponents) =>
          mandatory_components \subseteq Range(successful_components)
    /\ error.kind # "missing_required"
    /\ pc \in { "consolidate", "validate", "filter", "returned" } =>
          mandatory_components \subseteq Range(successful_components)

C22_Witness ==
    /\ pc = "consolidate"
    /\ mandatory_components \subseteq Range(failed_components)
    /\ mandatory_components \subseteq Range(successful_components)
    /\ Len(invoked) = NumComponents

\* The score the claim states for an analysis, times three: 40 * present / 6,
\* 25 * min(count, 15) / 15, 20 * depth / 100, and 15 for three sources.
StatedScore3(analysis) ==
    LET present == Cardinality({ c \in quality_required :
                                   c \in DOMAIN analysis /\ Truthy(analysis[c]) })
        count == analysis["insights_exclusivos"].n
        capped == IF count < 15 THEN count ELSE 15
        depth == validate_avatar_depth(analysis["avatar_ultra_detalhado"]).score
        fontes == Get(analysis["pesquisa_web_massiva"], "total_fontes", 0)
    IN  20 * present + 5 * capped + (3 * depth) \div 5 + (IF fontes >= 3 THEN 45 ELSE 0)

C23_Step ==
    pc = "validate" =>
        /\ quality_validation'.score3 = StatedScore3(final_analysis)
        /\ quality_validation'.score3 \in 0..300
        /\ quality_validation'.meets_minimum <=> (StatedScore3(final_analysis) >= 285)

\* C23: the quality score of every consolidated analysis lies in [0, 100] and
\* is the sum of the presence, insight, avatar and source parts;
\* meets_minimum holds exactly when the score is at least 95, and
\* metadata.quality_guaranteed of the returned analysis equals meets_minimum.
C23_ScoreIsSumOfParts ==
    /\ [][C23_Step]_vars
    /\ [](pc = "returned" =>
            /\ clean_analysis["metadata"].quality_score3 = quality_validation.score3
            /\ clean_analysis["metadata"].quality_guaranteed
                 <=> quality_validation.meets_minimum)

C23_Witness ==
    /\ pc = "returned"
    /\ quality_validation.score3 = 285
    /\ quality_validation.meets_minimum
    /\ clean_analysis["metadata"].quality_guaranteed
    /\ clean_analysis["insights_exclusivos"].n > 15

\* the score the claim states for an avatar
StatedDepth(avatar) ==
    LET sum == 100 - (IF avatar.perfil_demografico < 4 THEN 20 ELSE 0)
                   - (IF avatar.dores_viscerais.n < 5 THEN 25 ELSE 0)
                   - (IF avatar.desejos_secretos < 5 THEN 25 ELSE 0)
                   - (IF avatar.objecoes_reais < 3 THEN 20 ELSE 0)
                   - (IF avatar.dores_viscerais.short THEN 10 ELSE 0)
    IN  IF sum < 0 THEN 0 ELSE sum

\* C24: _validate_avatar_depth gives every avatar the score 100 less 20 for
\* fewer than 4 demographic fields, 25 for fewer than 5 pains, 25 for fewer
\* than 5 desires, 20 for fewer than 3 objections and 10 for one of the first
\* three pains under 30 characters, not below 0, and valid exactly when the
\* score is 100; the avatar part of the quality score is a fifth of it.
C24_AvatarDepthScore ==
    LET avatar == results["avatar_ultra_detalhado"]
        depth == validate_avatar_depth(avatar)
    IN  /\ depth.score = StatedDepth(avatar)
        /\ depth.valid <=> (depth.score = 100)
        /\ pc \in { "filter", "returned" } =>
              quality_validation.score3 - 3 * (StatedDepth(avatar) \div 5)
                \in { 120 + 5 * k + f : k \in 10..15, f \in { 0, 45 } }

C24_Witness ==
    /\ pc = "filter"
    /\ validate_avatar_depth(results["avatar_ultra_detalhado"]).score = 0
    /\ ~validate_avatar_depth(results["avatar_ultra_detalhado"]).valid
    /\ results["avatar_ultra_detalhado"].objecoes_reais = 2

\* the minimum the claim states for the result of a stage
StatedMinimum(name, value) ==
    CASE name = "drivers_mentais_customizados" ->
            /\ Get(value, "drivers_customizados", 0) >= 3
            /\ value.complete
            /\ value.historia >= 100
      [] name = "insights_exclusivos" -> value.kind = "list" /\ value.n >= 10
      [] name = "projeto_dados" ->
            "segmento" \in DOMAIN value /\ value.segmento.raw >= 3
      [] name = "pesquisa_web_massiva" -> Get(value, "total_fontes", 0) >= 1
      [] OTHER -> TRUE

C25_Step ==
    ( /\ pc = "called"
      /\ components[i] # "avatar_ultra_detalhado"
      /\ ~pending.raised
      /\ Truthy(pending.value)
      /\ ~FallbackFlag(pending.value) ) =>
        /\ StatedMinimum(components[i], pending.value)
             <=> /\ failed_components' = failed_components
                 /\ components[i] \in DOMAIN results'
                 /\ results'[components[i]] = pending.value
        /\ ResultAccepted <=> StatedMinimum(components[i], pending.value)

\* C25: a non-empty value without the fallback flag is accepted by
\* _validate_component_result, and so stored and not recorded as failed,
\* exactly when its stage's minimum holds: 3 or more drivers each with a name
\* and a narrative of 100 characters, a list of 10 or more insights, a
\* segment of 3 or more characters, 1 or more sources; the result of a stage
\* with no rule of its own is accepted.
C25_AcceptedExactlyAtMinimum == [][C25_Step]_vars

C25_Witness ==
    /\ pc = "loop"
    /\ invoked = << "drivers_mentais_customizados" >>
    /\ failed_components = << >>
    /\ results["drivers_mentais_customizados"].drivers_customizados = 3
    /\ results["drivers_mentais_customizados"].historia = 100

C26_Step ==
    pc = "validate" =>
        /\ pc' = "filter"
        /\ error' = NoError
        /\ DOMAIN final_analysis' = DOMAIN final_analysis
        /\ \A key \in DOMAIN final_analysis
                        \ { "insights_exclusivos", "avatar_ultra_detalhado" } :
             final_analysis'[key] = final_analysis[key]
        /\ quality_validation'.score3 >= 285 => final_analysis' = final_analysis

\* C26: the enhancement pass, run only when the score is under 95, does not
\* raise or abort the run; it changes no section of the consolidated result
\* other than insights_exclusivos and avatar_ultra_detalhado, and a score that
\* stays under 95 is carried by the metadata of the returned analysis.
C26_EnhancementIsAdvisory ==
    /\ [][C26_Step]_vars
    /\ [](pc = "filter" => ENABLED FilterAndReturn)
    /\ []((pc = "returned" /\ quality_validation.score3 < 285) =>
            /\ error = NoError
            /\ clean_analysis["metadata"].quality_score3 = quality_validation.score3
            /\ ~clean_analysis["metadata"].quality_guaranteed)

C26_Witness ==
    /\ pc = "returned"
    /\ quality_validation.score3 < 285
    /\ ReportedSources = 1
    /\ ~clean_analysis["metadata"].quality_guaranteed
    /\ clean_analysis["posicionamento_estrategico"].origin = "ai"

\* what the claim states of _filter_dict_raw_data for the mapping given and
\* the mapping returned
StatedDictFilter(given, returned) ==
    \A j \in 1..Len(given.m) :
        LET key == given.m[j].k
            value == given.m[j].v
        IN  IF Lower(key) \in raw_data_fields
            THEN /\ key \notin KeysOf(returned.m)
                 /\ value.kind = "seq" =>
                      /\ (key \o "_count") \in KeysOf(returned.m)
                      /\ ValueAt(returned.m, key \o "_count") = IntV(Len(value.s))
                 /\ value.kind = "str" =>
                      /\ (key \o "_length") \in KeysOf(returned.m)
                      /\ ValueAt(returned.m, key \o "_length") = IntV(value.raw)
            ELSE /\ key \in KeysOf(returned.m)
                 /\ ValueAt(returned.m, key) =
                      IF value.kind = "map" THEN filter_dict_raw_data_nested(value)
                      ELSE IF value.kind = "seq" THEN filter_list_raw_data_nested(value)
                      ELSE value

\* C27: _filter_dict_raw_data replaces every key that matches the raw-payload
\* denylist, whatever its case, by <key>_count = length for a sequence and
\* <key>_length = length for a string, and drops it for any other value;
\* every other key is kept, its mapping or sequence value redacted
\* recursively and its scalar value unchanged.
C27_DictFilterPerKey ==
    pc = "filtered" =>
        \A j \in 1..Len(final_analysis.m) :
            LET key == final_analysis.m[j].k
                value == final_analysis.m[j].v
            IN  (key \notin structural_keys /\ value.kind = "map") =>
                    StatedDictFilter(value, ValueAt(clean_analysis.m, key))

\* no mapping in value has a key of the raw-payload denylist, and no mapping
\* that is an item of a sequence has a key of the item-level denylist
RECURSIVE NoRawKeys(_, _)
NoRawKeys(value, is_item) ==
    CASE value.kind = "map" ->
            \A j \in 1..Len(value.m) :
                /\ Lower(value.m[j].k) \notin raw_data_fields
                /\ is_item => Lower(value.m[j].k) \notin item_content_fields
                /\ NoRawKeys(value.m[j].v, FALSE)
      [] value.kind = "seq" ->
            \A j \in 1..Len(value.s) : NoRawKeys(value.s[j], TRUE)
      [] OTHER -> TRUE

\* C28: after redaction no mapping nested at any depth in a stage output,
\* reached through mappings, sequences of mappings or sequences in sequences,
\* has a key of the raw-payload denylist, and no mapping that is an item of
\* a sequence has a key of the item-level denylist.
C28_NoDenylistedKeyLeft ==
    pc = "filtered" =>
        \A j \in 1..Len(clean_analysis.m) :
            clean_analysis.m[j].k \notin structural_keys =>
                NoRawKeys(clean_analysis.m[j].v, FALSE)

PrimaryCalls == SelectSeq(search.calls, LAMBDA c : c.to = "primary")

SecondaryCalls == SelectSeq(search.calls, LAMBDA c : c.to = "secondary")

\* C29: the web-search stage calls the primary search collaborator at most
\* five times, once per generated query and in their order, and calls the
\* secondary search collaborator at most once, and only when no primary call
\* returned a result set that meets the quality requirements.
C29_SearchCallsBounded ==
    /\ Len(PrimaryCalls) <= 5
    /\ \A k \in 1..Len(PrimaryCalls) : PrimaryCalls[k].query = search.queries[k]
    /\ Len(SecondaryCalls) <= 1
    /\ SecondaryCalls # << >> =>
         /\ \A k \in 1..Len(PrimaryCalls) : ~PrimaryCalls[k].met
         /\ Last(search.calls).to = "secondary"

C29_Witness ==
    /\ pc = "search_done"
    /\ Len(search.queries) = 8
    /\ Len(PrimaryCalls) = 5
    /\ Len(SecondaryCalls) = 1

\* C30: a response that is a valid JSON document but for trailing commas
\* before a closing brace or bracket or for a '//' comment line is parsed by
\* _process_and_validate_ai_response, after the cleanup, to the mapping of
\* the document without those defects; a response that cannot be parsed
\* after the cleanup makes the AI-analysis stage fail.
C30_RepairableResponseParsed ==
    /\ (pc = "processed" /\ response.repairable) =>
            pending = Return(json_loads(response.plain).val)
    /\ (pc = "processed" /\ ~response.repairable) => pending.raised
    /\ pc = "stage_raised" =>
            pending = Raise("ANALISE_IA_AVANCADA")

\* the stages whose generator can signal a degraded result
DegradableStages ==
    { "drivers_mentais_customizados", "provas_visuais_instantaneas",
      "sistema_anti_objecao", "pre_pitch_invisivel" }

\* the answer ext of the generator of stage name is a degraded result
Degraded(name, ext) ==
    CASE name = "provas_visuais_instantaneas" ->
            ext.proofs.kind = "list" /\ ext.proofs.fallback
      [] name = "pre_pitch_invisivel" ->
            ext.kind = "dict" /\ ext.status = "EMERGENCY_MODE"
      [] OTHER -> FallbackFlag(ext)

C31_Step ==
    /\ (pc = "loop" /\ i <= NumComponents /\ components[i] \in DegradableStages) =>
            \A ext \in Answers(components[i]) :
                Degraded(components[i], ext) =>
                    component_func(components[i], ComponentData(data, results), ext).raised
    /\ (pc = "called" /\ components[i] \in DegradableStages /\ pending.raised) =>
            /\ failed_components' = Append(failed_components, components[i])
            /\ successful_components' = successful_components
            /\ results' = results
            /\ components[i] \notin DOMAIN results

\* C31: when the generator of the mental drivers, of the anti-objection
\* system, of the visual proofs or of the pre-pitch signals a degraded result
\* (fallback_mode, or status EMERGENCY_MODE for the pre-pitch), the stage
\* raises, it is recorded as failed, nothing is stored under its name, and
\* the returned analysis has no section of that name.
C31_DegradedResultFailsStage ==
    /\ [][C31_Step]_vars
    /\ [](pc = "returned" =>
            \A name \in DegradableStages :
                name \in Range(failed_components) =>
                    /\ name \notin DOMAIN results
                    /\ name \notin DOMAIN clean_analysis)

C31_Witness ==
    /\ pc = "called"
    /\ components[i] = "pre_pitch_invisivel"
    /\ pending = generate_pre_pitch(component_data, [kind |-> "dict", status |-> "EMERGENCY_MODE"])
    /\ pending.raised
    /\ ~generate_pre_pitch(component_data, [kind |-> "dict", status |-> "OK"]).raised

\* C32: the list _generate_final_insights returns has no entry twice,
\* whatever the accumulated state, also when the insights of the AI analysis
\* were topped up with, or produced by recovery from, the generated
\* additional insights.
C32_FinalInsightsAreDistinct ==
    (pc = "called" /\ components[i] = "insights_exclusivos" /\ ~pending.raised) =>
        ~pending.value.dup

RecoveredOnly == { "pesquisa_web_massiva", "analise_ia_avancada" }

\* C33: a failure of the web-search stage or of the AI-analysis stage never
\* aborts a run: recovery for these two stages returns a non-empty value on
\* every accumulated state, and the only mandatory stage whose failure is
\* fatal is projeto_dados.
C33_OnlyProjectDataCanBeFatal ==
    /\ \A name \in RecoveredOnly :
            Truthy(attempt_component_recovery(name, ComponentData(data, results)))
    /\ error.kind = "mandatory" => error.names = { "projeto_dados" }
    /\ pc = "raised" =>
            /\ error = MandatoryError("projeto_dados")
            /\ invoked = << "projeto_dados" >>
    /\ (pc = "loop" /\ i > 3) => RecoveredOnly \subseteq Range(successful_components)

C33_Witness ==
    /\ pc = "returned"
    /\ RecoveredOnly \subseteq Range(failed_components)
    /\ RecoveredOnly \subseteq Range(recovery_calls)
    /\ RecoveredOnly \subseteq Range(successful_components)

Executed == clean_analysis["pipeline_status"].componentes_executados

Failed == clean_analysis["pipeline_status"].componentes_falharam

\* the claim as stated: the two lists are disjoint and hold each of the
\* eleven stage names exactly once
C34_ListsPartitionStages ==
    pc = "returned" =>
        /\ Range(Executed) \cap Range(Failed) = {}
        /\ Range(Executed) \cup Range(Failed) = StageNames
        /\ Len(Executed) + Len(Failed) = NumComponents

\* C34 (amended): in every returned analysis each of the eleven stage names
\* is in componentes_executados or in componentes_falharam; a recovered
\* mandatory stage is in both, and no other stage is when no hook raised, so
\* that |executed| + |failed| is 11 plus the number of recovered stages.
C34_ListsCoverStagesRecoveredInBoth ==
    pc = "returned" =>
        /\ Range(Executed) \cup Range(Failed) = StageNames
        /\ Range(recovery_calls) \subseteq Range(Executed) \cap Range(Failed)
        /\ Len(Executed) + Len(Failed) >= NumComponents + Cardinality(Range(recovery_calls))
        /\ hook_failures_left = MaxHookFailures =>
            /\ Range(Executed) \cap Range(Failed) = Range(recovery_calls)
            /\ Len(Executed) + Len(Failed) = NumComponents + Len(recovery_calls)
            /\ \A name \in StageNames :
                 Occurrences(Executed, name) + Occurrences(Failed, name)
                    = IF name \in Range(recovery_calls) THEN 2 ELSE 1

C34_Witness ==
    /\ pc = "returned"
    /\ "pesquisa_web_massiva" \in Range(Executed) \cap Range(Failed)
    /\ Len(Executed) + Len(Failed) = NumComponents + 1

\* C35: executing a stage never changes the value already stored in the
\* accumulated results for an earlier stage; in particular the call of the
\* avatar stage and of the positioning stage leaves the stored
\* analise_ia_avancada value as it was, whatever happens to the stage's own
\* result afterwards.
C35_StageLeavesStoredResultsUnchanged ==
    [][(pc = "loop" /\ pc' = "called") =>
          \A j \in 1..(i - 1) :
             components[j] \in DOMAIN results =>
                /\ components[j] \in DOMAIN results'
                /\ results'[components[j]] = results[components[j]]]_vars

\* the caller's input has no key that is the name of a stage
NoStageKeyInInput == DOMAIN data \cap StageNames = {}

\* C36: for an input that carries no key equal to a stage name, a failed
\* avatar stage makes the mental-drivers stage and the pre-pitch stage fail, at
\* most 8 of the 11 stages are then successful and the returned status is not
\* COMPLETO; and a failed mental-drivers stage makes the pre-pitch stage fail.
C36_FailedAvatarFailsDriversAndPrePitch ==
    (pc = "returned" /\ NoStageKeyInInput) =>
        /\ "avatar_ultra_detalhado" \in Range(Failed) =>
              /\ "drivers_mentais_customizados" \in Range(Failed)
              /\ "pre_pitch_invisivel" \in Range(Failed)
              /\ { "drivers_mentais_customizados", "pre_pitch_invisivel" }
                    \cap Range(Executed) = {}
              /\ Len(Executed) <= 8
              /\ Cardinality(Range(Executed)) <= 8
              /\ clean_analysis["status"].value # "COMPLETO"
        /\ "drivers_mentais_customizados" \in Range(Failed) =>
              /\ "pre_pitch_invisivel" \in Range(Failed)
              /\ "pre_pitch_invisivel" \notin Range(Executed)

\* the avatar stage failed and the eight stages that can still succeed did
C36_Witness ==
    /\ pc = "returned"
    /\ NoStageKeyInInput
    /\ "avatar_ultra_detalhado" \in Range(Failed)
    /\ Len(Executed) = 8
    /\ clean_analysis["status"].value = "PARCIAL_VALIDO"

\* C37: the final-insights stage always succeeds: its function returns a list
\* of 15 to 30 insights for every accumulated state (topped up when fewer than
\* 15 survive the filter, the generated insights when something inside it
\* raises), the list passes the validator, and in a returned analysis the
\* stage is listed as executed and its section is the stage's own list, not
\* the consolidation fallback.
C37_FinalInsightsAlwaysSucceed ==
    /\ (pc = "called" /\ components[i] = "insights_exclusivos") =>
          /\ ~pending.raised
          /\ pending.value.kind = "list"
          /\ pending.value.n >= MinInsights
          /\ pending.value.n <= 30
          /\ validate_component_result("insights_exclusivos", pending.value)
    /\ pc = "returned" =>
          /\ "insights_exclusivos" \in Range(Executed)
          /\ "insights_exclusivos" \notin Range(Failed)
          /\ final_analysis["insights_exclusivos"] = results["insights_exclusivos"]
          /\ final_analysis["insights_exclusivos"].origin = "final"

\* the insights of the AI are numbers: the function's handler answers with
\* the twenty generated insights
C37_Witness ==
    /\ pc = "called"
    /\ components[i] = "insights_exclusivos"
    /\ HasNumbers(results["analise_ia_avancada"].insights_exclusivos)
    /\ pending.value.n = 20

\* the web-search stage was recovered in this run
SearchRecovered == "pesquisa_web_massiva" \in Range(recovery_calls)

\* C38: in every returned analysis the web-search section reports
\* total_fontes >= 1; and when the web-search stage was recovered the section
\* reports one source, the quality score is at most 85 (255 in thirds of a
\* point) and metadata.quality_guaranteed is false, whatever the other stages
\* produced.
C38_RecoveredSearchCapsQuality ==
    pc = "returned" =>
        /\ "pesquisa_web_massiva" \in DOMAIN clean_analysis
        /\ "total_fontes" \in DOMAIN clean_analysis["pesquisa_web_massiva"]
        /\ clean_analysis["pesquisa_web_massiva"].total_fontes >= 1
        /\ SearchRecovered =>
              /\ clean_analysis["pesquisa_web_massiva"].total_fontes = 1
              /\ clean_analysis["metadata"].quality_score3 <= 255
              /\ quality_validation.score3 <= 255
              /\ ~clean_analysis["metadata"].quality_guaranteed

\* a recovered search with everything else at its best: the score is 85
C38_Witness ==
    /\ pc = "returned"
    /\ SearchRecovered
    /\ clean_analysis["metadata"].quality_score3 = 255
    /\ Len(Executed) = NumComponents

\* C39: in every returned analysis no stage name occurs more than once in
\* componentes_executados, metadata.success_rate equals
\* pipeline_status.taxa_sucesso, and the rate lies between 3/11 of 100 and 100,
\* also in runs in which a persistence hook raised after a stage result had
\* been stored.
C39_SuccessRateWithinBounds ==
    pc = "returned" =>
        /\ \A name \in StageNames : Occurrences(Executed, name) <= 1
        /\ clean_analysis["metadata"].success_rate
              = clean_analysis["pipeline_status"].taxa_sucesso
        /\ clean_analysis["metadata"].success_rate.num
              <= 100 * clean_analysis["metadata"].success_rate.den
        /\ clean_analysis["metadata"].success_rate.num
              >= 100 * Cardinality(mandatory_components)

\* the AI-analysis stage was recovered in this run
AIRecovered == "analise_ia_avancada" \in Range(recovery_calls)

\* the segment of the stored project data contains no listed phrase
StoredSegmentClean ==
    /\ "projeto_dados" \in DOMAIN results
    /\ ~SegmentoOf(results["projeto_dados"]).sim

ReadersOfAIAnalysis ==
    { "avatar_ultra_detalhado", "posicionamento_estrategico", "insights_exclusivos" }

\* C40: when the AI-analysis stage was recovered and the segment contains no
\* listed phrase, the avatar stage returns the recovered basic avatar, which
\* is valid for the depth validation and passes the avatar quality rule, the
\* positioning stage and the final-insights stage return accepted values, and
\* the three stages are in the successful list of the returned analysis.
C40_RecoveredAnalysisFeedsItsReaders ==
    (AIRecovered /\ StoredSegmentClean) =>
        /\ (pc = "called" /\ components[i] \in ReadersOfAIAnalysis) =>
              /\ ~pending.raised
              /\ validate_component_result(components[i], pending.value)
        /\ (pc = "called" /\ components[i] = "avatar_ultra_detalhado") =>
              /\ pending.value.origin = "basic"
              /\ validate_avatar_depth(pending.value).valid
              /\ validate_avatar_quality(pending.value)
        /\ pc = "returned" =>
              /\ ReadersOfAIAnalysis \subseteq Range(Executed)
              /\ ReadersOfAIAnalysis \cap Range(Failed) = {}
              /\ clean_analysis["avatar_ultra_detalhado"].origin = "basic"

C40_Witness ==
    /\ pc = "returned"
    /\ AIRecovered
    /\ StoredSegmentClean
    /\ "avatar_ultra_detalhado" \in Range(Executed)
    /\ clean_analysis["avatar_ultra_detalhado"].origin = "basic"
    /\ "pesquisa_web_massiva" \notin Range(recovery_calls)

====
